---- MODULE Spec2Model ----
(***************************************************************************)
(* Safety-restriction validation of fixed-time schedules (swift_cloud_py), *)
(* and the authentication cache and the calls of the cloud api.            *)
(*                                                                         *)
(* Time is an integer number of microseconds, so that the three epsilons   *)
(* of the validators (1e-2, 1e-3 and 1e-6 seconds) are all integers.       *)
(* The schedules and intersections that are explored have their times on   *)
(* a grid of Grid microseconds.  The clock of the cloud api counts         *)
(* seconds.                                                                *)
(***************************************************************************)
EXTENDS Integers, Sequences, FiniteSets, TLC

\* ------------------------------------------------------------------------
\* Program constants (microseconds)
\* ------------------------------------------------------------------------
DefaultTolerance == 10000
ConflictEpsilon == 1000
EPSILON == 1

\* ------------------------------------------------------------------------
\* Bounds of the exploration
\* ------------------------------------------------------------------------
MaxTick == 3
MaxNr == 2
MaxSetup == 2

Grid == 10 * DefaultTolerance
period0 == MaxTick * Grid
GridTimes == {k * Grid : k \in 0..MaxTick}
SetupTimes == {k * Grid : k \in (-1)..MaxSetup}
Tolerances == {0, Grid, DefaultTolerance}

VARIABLES signalgroups, conflicts, other_relations, periodic_orders,
          greenyellow_intervals, period, tolerance, pc, called, outcome,
          credentials, jwt_token, exp, now, authentication_token, sent,
          response, arguments, returned

vars == <<signalgroups, conflicts, other_relations, periodic_orders,
          greenyellow_intervals, period, tolerance, pc, called, outcome,
          credentials, jwt_token, exp, now, authentication_token, sent,
          response, arguments, returned>>

inputs == <<signalgroups, conflicts, other_relations, periodic_orders,
            greenyellow_intervals, period, tolerance>>

\* the class attributes of Authentication and of SwiftMobilityCloudApi, the
\* clock (seconds), the requests sent during the call that is running and
\* the answer of the authentication endpoint received during that call
cloud == <<credentials, jwt_token, exp, now, authentication_token, sent, response>>

\* the arguments and the value returned of a function that is called on
\* its own
calls == <<arguments, returned>>

\* ------------------------------------------------------------------------
\* Generic helpers
\* ------------------------------------------------------------------------
Max(a, b) == IF a >= b THEN a ELSE b
Min(a, b) == IF a <= b THEN a ELSE b

\* Python's a % p for p > 0 (result in 0..p-1 also for negative a)
PyMod(a, p) == ((a % p) + p) % p

Range(s) == {s[i] : i \in DOMAIN s}

\* Python's None, where a number or an index is expected
None == -1

\* no answer of the authentication endpoint has been received
NoAnswer == [status_code |-> None, jwt_token |-> None, exp |-> None]

\* the classes Authentication and SwiftMobilityCloudApi as the import of
\* the package leaves them, with both credentials in the environment
ModuleLoaded ==
    /\ credentials = [access_key |-> 1, secret_access_key |-> 1]
    /\ jwt_token = None
    /\ exp = 0
    /\ now = 0
    /\ authentication_token = None
    /\ sent = << >>
    /\ response = NoAnswer

\* no function has been called on its own
NoFunctionCalled ==
    /\ arguments = << >>
    /\ returned = None

\* ------------------------------------------------------------------------
\* Outcomes of a call: normal return or the exception that is raised
\* ------------------------------------------------------------------------
\* error: the exception class, by: the function that raises, sg: the signal
\* group ids, idx: the interval indices and what: the restriction that the
\* message of the exception names
Returned == [error |-> "none", by |-> "none", sg |-> <<>>, idx |-> <<>>, what |-> ""]
Raised(e, by, sg, idx) == [error |-> e, by |-> by, sg |-> sg, idx |-> idx, what |-> ""]
RaisedWhat(e, by, sg, what) == [error |-> e, by |-> by, sg |-> sg, idx |-> <<>>, what |-> what]
NotCalled == [error |-> "not_called", by |-> "none", sg |-> <<>>, idx |-> <<>>, what |-> ""]

\* ------------------------------------------------------------------------
\* Data model
\* ------------------------------------------------------------------------
GreenYellowInterval(s, e) == [start_greenyellow |-> s, end_greenyellow |-> e]

SignalGroup(id, min_gy, max_gy, min_r, max_r) ==
    [id |-> id, min_greenyellow |-> min_gy, max_greenyellow |-> max_gy,
     min_red |-> min_r, max_red |-> max_r]

\* SignalGroup._validate (the part on durations)
SignalGroupValid(sg) ==
    /\ sg.min_greenyellow >= 0
    /\ 0 < sg.max_greenyellow /\ sg.max_greenyellow >= sg.min_greenyellow
    /\ sg.min_red >= 0
    /\ 0 < sg.max_red /\ sg.max_red >= sg.min_red

Conflict(id1, id2, setup12, setup21) ==
    [id1 |-> id1, id2 |-> id2, setup12 |-> setup12, setup21 |-> setup21]

\* Conflict._validate
ConflictValid(c) ==
    /\ c.id1 # c.id2
    /\ c.setup12 + c.setup21 >= 0

\* _validate_setup_times that lets a sum of zero pass (mutant of
\* ValidateSetupTimes)
ValidateSetupTimes_ZeroAllowed(sgs, cs) ==
    \A i \in DOMAIN cs :
        \A j, k \in DOMAIN sgs :
            (sgs[j].id = cs[i].id1 /\ sgs[k].id = cs[i].id2) =>
                /\ ~(sgs[j].min_greenyellow + cs[i].setup12 < 0)
                /\ ~(sgs[k].min_greenyellow + cs[i].setup21 < 0)

\* Intersection._validate_setup_times
ValidateSetupTimes(sgs, cs) ==
    \A i \in DOMAIN cs :
        \A j, k \in DOMAIN sgs :
            (sgs[j].id = cs[i].id1 /\ sgs[k].id = cs[i].id2) =>
                /\ ~(sgs[j].min_greenyellow + cs[i].setup12 <= 0)
                /\ ~(sgs[k].min_greenyellow + cs[i].setup21 <= 0)

\* FixedTimeSchedule._validate_interval_within_period
ValidateIntervalWithinPeriod(interval, p) ==
    /\ ~(interval.start_greenyellow > p)
    /\ ~(interval.end_greenyellow > p)

\* index (1-based) of the interval that min(..., key=start) selects
IndexFirstInterval(intervals) ==
    CHOOSE i \in DOMAIN intervals :
        /\ \A j \in DOMAIN intervals :
               intervals[i].start_greenyellow <= intervals[j].start_greenyellow
        /\ \A j \in 1..(i - 1) :
               intervals[j].start_greenyellow > intervals[i].start_greenyellow

\* intervals[index_first_interval:] + intervals[:index_first_interval]
IntervalsSorted(intervals) ==
    LET f == IndexFirstInterval(intervals)
        n == Len(intervals)
    IN  [k \in 1..n |-> intervals[((f - 1 + k - 1) % n) + 1]]

\* FixedTimeSchedule._validate_correct_order
ValidateCorrectOrder(intervals) ==
    \/ Len(intervals) = 0
    \/ LET srt == IntervalsSorted(intervals)
       IN  \A k \in 2..Len(srt) :
               ~(srt[k].start_greenyellow <= srt[k - 1].start_greenyellow)

\* the last interval is not compared with the first (mutant of
\* ValidateNotOverlapping)
ValidateNotOverlapping_LastUnchecked(intervals) ==
    \/ Len(intervals) = 0
    \/ LET srt == IntervalsSorted(intervals)
           n == Len(srt)
           prev_time(k) == IF k = 1 THEN 0 ELSE srt[k - 1].end_greenyellow
       IN  \A k \in 1..n :
               /\ ~(srt[k].start_greenyellow < prev_time(k))
               /\ ~(k < n /\ srt[k].end_greenyellow < srt[k].start_greenyellow)

\* FixedTimeSchedule._validate_not_overlapping
ValidateNotOverlapping(intervals) ==
    \/ Len(intervals) = 0
    \/ LET srt == IntervalsSorted(intervals)
           n == Len(srt)
           first == srt[1]
           prev_time(k) == IF k = 1 THEN 0 ELSE srt[k - 1].end_greenyellow
       IN  \A k \in 1..n :
               /\ ~(srt[k].start_greenyellow < prev_time(k))
               /\ ~(k < n /\ srt[k].end_greenyellow < srt[k].start_greenyellow)
               /\ ~(/\ k = n
                    /\ first.start_greenyellow < srt[k].end_greenyellow
                    /\ srt[k].end_greenyellow < srt[k].start_greenyellow)

\* FixedTimeSchedule._validate, for the interval list of one signal group
IntervalsValid(intervals, p) ==
    /\ ValidateCorrectOrder(intervals)
    /\ ValidateNotOverlapping(intervals)
    /\ \A k \in DOMAIN intervals : ValidateIntervalWithinPeriod(intervals[k], p)

\* FixedTimeSchedule._validate
ScheduleValid(gi, p) == \A id \in DOMAIN gi : IntervalsValid(gi[id], p)

\* FixedTimeSchedule.__init__: the outcome of the construction
FixedTimeScheduleInit(gi, p) ==
    IF ScheduleValid(gi, p) THEN Returned
    ELSE [error |-> "ValueError", by |-> "FixedTimeSchedule._validate",
          sg |-> <<>>, idx |-> <<>>, what |-> ""]

\* FixedTimeSchedule.includes_signalgroup
includes_signalgroup(gi, id) == id \in DOMAIN gi

\* FixedTimeSchedule.get_greenyellow_intervals raises ValueError for an
\* id that is not a key of the schedule
UnknownSignalgroup(gi, id) == id \notin DOMAIN gi

\* ------------------------------------------------------------------------
\* Inputs that are explored
\* ------------------------------------------------------------------------
GridIntervals == {GreenYellowInterval(s, e) : s \in GridTimes, e \in GridTimes}

IntervalLists(maxlen) ==
    {l \in UNION {[1..n -> GridIntervals] : n \in 0..maxlen} :
        IntervalsValid(l, period0)}

\* no interval, or one interval that starts at 0
ListsFromZero ==
    {l \in IntervalLists(1) : \A k \in DOMAIN l : l[k].start_greenyellow = 0}

\* ------------------------------------------------------------------------
\* validate_conflicts.py
\* ------------------------------------------------------------------------
\* overlap_of_intervals with 'max_start <= min_end': intervals that only touch
\* are stored as an overlap
overlap_of_intervals_Touching(interval1, interval2, p) ==
    IF interval1[1] > interval1[2] /\ interval2[1] > interval2[2]
    THEN << <<Max(interval1[1], interval2[1]), Min(interval1[2], interval2[2])>> >>
    ELSE LET swap == interval1[1] > interval1[2]
             i1 == IF swap THEN interval2 ELSE interval1
             i2 == IF swap THEN interval1 ELSE interval2
             interval_list2_non_periodic ==
                 IF i2[1] < i2[2]
                 THEN << i2 >>
                 ELSE << <<i2[1] - p, i2[2]>>, <<i2[1], i2[2] + p>> >>
             max_start(k) == Max(i1[1], interval_list2_non_periodic[k][1])
             min_end(k) == Min(i1[2], interval_list2_non_periodic[k][2])
             overlapping(k) ==
                 IF max_start(k) <= min_end(k)
                 THEN << <<PyMod(max_start(k), p), PyMod(min_end(k), p)>> >>
                 ELSE << >>
         IN  IF Len(interval_list2_non_periodic) = 1
             THEN overlapping(1)
             ELSE overlapping(1) \o overlapping(2)

\* overlap_of_intervals; intervals are pairs <<start, end>>
overlap_of_intervals(interval1, interval2, p) ==
    IF interval1[1] > interval1[2] /\ interval2[1] > interval2[2]
    THEN << <<Max(interval1[1], interval2[1]), Min(interval1[2], interval2[2])>> >>
    ELSE LET swap == interval1[1] > interval1[2]
             i1 == IF swap THEN interval2 ELSE interval1
             i2 == IF swap THEN interval1 ELSE interval2
             interval_list2_non_periodic ==
                 IF i2[1] < i2[2]
                 THEN << i2 >>
                 ELSE << <<i2[1] - p, i2[2]>>, <<i2[1], i2[2] + p>> >>
             max_start(k) == Max(i1[1], interval_list2_non_periodic[k][1])
             min_end(k) == Min(i1[2], interval_list2_non_periodic[k][2])
             overlapping(k) ==
                 IF max_start(k) < min_end(k)
                 THEN << <<PyMod(max_start(k), p), PyMod(min_end(k), p)>> >>
                 ELSE << >>
         IN  IF Len(interval_list2_non_periodic) = 1
             THEN overlapping(1)
             ELSE overlapping(1) \o overlapping(2)

ForbiddenIntervalForSg2(interval1, p, conflict) ==
    << PyMod(interval1.start_greenyellow - conflict.setup21 + ConflictEpsilon, p),
       PyMod(interval1.end_greenyellow + conflict.setup12 - ConflictEpsilon, p) >>

conflict_satisfied(interval1, interval2, p, conflict) ==
    LET forbidden_interval_for_sg2 == ForbiddenIntervalForSg2(interval1, p, conflict)
        intersection == overlap_of_intervals(
                            forbidden_interval_for_sg2,
                            <<interval2.start_greenyellow, interval2.end_greenyellow>>, p)
    IN  IF intersection # << >> THEN FALSE ELSE TRUE

\* the first pair (index1, index2), in loop order, that violates the conflict
\* (0-based indices, as in the error message); <<>> if there is none
FirstViolatingPair(intervals1, intervals2, p, conflict) ==
    LET bad == {pr \in (DOMAIN intervals1) \X (DOMAIN intervals2) :
                   ~conflict_satisfied(intervals1[pr[1]], intervals2[pr[2]], p, conflict)}
    IN  IF bad = {} THEN << >>
        ELSE LET pr == CHOOSE x \in bad :
                           \A y \in bad : x[1] < y[1] \/ (x[1] = y[1] /\ x[2] <= y[2])
             IN  <<pr[1] - 1, pr[2] - 1>>

RECURSIVE ValidateConflictsFrom(_, _, _, _)
ValidateConflictsFrom(i, cs, gi, p) ==
    IF i > Len(cs) THEN Returned
    ELSE IF UnknownSignalgroup(gi, cs[i].id1)
         THEN Raised("ValueError", "get_greenyellow_intervals", <<cs[i].id1>>, <<>>)
    ELSE IF UnknownSignalgroup(gi, cs[i].id2)
         THEN Raised("ValueError", "get_greenyellow_intervals", <<cs[i].id2>>, <<>>)
    ELSE LET pr == FirstViolatingPair(gi[cs[i].id1], gi[cs[i].id2], p, cs[i])
         IN  IF pr # << >>
             THEN Raised("SafetyViolation", "validate_conflicts",
                         <<cs[i].id1, cs[i].id2>>, pr)
             ELSE ValidateConflictsFrom(i + 1, cs, gi, p)

validate_conflicts(cs, gi, p) == ValidateConflictsFrom(1, cs, gi, p)

\* ------------------------------------------------------------------------
\* Specification of the conflict validator: one intersection with two
\* conflicting signal groups and every schedule on the grid
\* ------------------------------------------------------------------------
DefaultSignalgroup(id) == SignalGroup(id, 2 * Grid, period0, 0, period0)

InitConflicts ==
    /\ signalgroups = <<DefaultSignalgroup("sg1"), DefaultSignalgroup("sg2")>>
    /\ \E s12 \in SetupTimes, s21 \in SetupTimes :
           conflicts = << Conflict("sg1", "sg2", s12, s21) >>
    /\ \A i \in DOMAIN conflicts : ConflictValid(conflicts[i])
    /\ ValidateSetupTimes(signalgroups, conflicts)
    /\ other_relations = << >>
    /\ periodic_orders = << >>
    /\ period = period0
    /\ \E l1 \in IntervalLists(MaxNr) \ {<< >>}, l2 \in IntervalLists(MaxNr) \ {<< >>} :
           greenyellow_intervals = [id \in {"sg1", "sg2"} |-> IF id = "sg1" THEN l1 ELSE l2]
    /\ tolerance = DefaultTolerance
    /\ pc = "ready"
    /\ called = "none"
    /\ outcome = NotCalled
    /\ ModuleLoaded
    /\ NoFunctionCalled

ValidateConflicts ==
    /\ pc = "ready"
    /\ pc' = "done"
    /\ called' = "validate_conflicts"
    /\ outcome' = validate_conflicts(conflicts, greenyellow_intervals, period)
    /\ UNCHANGED <<inputs, cloud, calls>>

SpecConflicts == InitConflicts /\ [][ValidateConflicts]_vars

\* ------------------------------------------------------------------------
\* Claims on the conflict validator
\* ------------------------------------------------------------------------
\* the grid cells [t, t + Grid) of one period that an interval covers;
\* start > end wraps past time 0, start = end covers nothing
Covered(interval, p) ==
    LET s == interval.start_greenyellow
        e == interval.end_greenyellow
    IN  {t \in GridTimes \ {p} :
            \/ s < e /\ s <= t /\ t < e
            \/ s > e /\ (s <= t \/ t < e)}

SharePositiveStretch(interval1, interval2, p) ==
    Covered(interval1, p) \cap Covered(interval2, p) # {}

ConflictsReturned ==
    pc = "done" /\ called = "validate_conflicts" /\ outcome = Returned

\* every stored interval has positive length (start and end differ on the cycle)
AllIntervalsPositive ==
    \A id \in DOMAIN greenyellow_intervals :
        \A k \in DOMAIN greenyellow_intervals[id] :
            PyMod(greenyellow_intervals[id][k].end_greenyellow
                  - greenyellow_intervals[id][k].start_greenyellow, period) # 0

NonNegativeSetups ==
    \A i \in DOMAIN conflicts : conflicts[i].setup12 >= 0 /\ conflicts[i].setup21 >= 0

\* C1: when validate_conflicts returns without raising, no interval of id1
\* and interval of id2 of a conflict share a stretch of positive length.
\* Stated for the schedules with intervals of positive length and the
\* conflicts with non-negative setup times, a part of what the claim covers.
C1_NoOverlapWhenAccepted ==
    (ConflictsReturned /\ AllIntervalsPositive /\ NonNegativeSetups) =>
        \A i \in DOMAIN conflicts :
            \A k1 \in DOMAIN greenyellow_intervals[conflicts[i].id1],
               k2 \in DOMAIN greenyellow_intervals[conflicts[i].id2] :
                ~SharePositiveStretch(greenyellow_intervals[conflicts[i].id1][k1],
                                      greenyellow_intervals[conflicts[i].id2][k2], period)

\* some interval of group "to" starts less than setup - 0.001 s (forward on
\* the cycle) after some interval of group "from" ends
StartsTooSoonAfter(from, to, setup, p) ==
    \E a \in DOMAIN greenyellow_intervals[from], b \in DOMAIN greenyellow_intervals[to] :
        PyMod(greenyellow_intervals[to][b].start_greenyellow
              - greenyellow_intervals[from][a].end_greenyellow, p) < setup - ConflictEpsilon

\* C2: validate_conflicts raises SafetyViolation whenever some interval of
\* id2 starts less than setup12 - 0.001 s after some interval of id1 ends, or
\* some interval of id1 less than setup21 - 0.001 s after one of id2 ends.
\* Stated for the schedules with intervals of positive length.
C2_ClearanceViolationRaises ==
    (/\ pc = "done" /\ called = "validate_conflicts"
     /\ AllIntervalsPositive
     /\ \E i \in DOMAIN conflicts :
            \/ StartsTooSoonAfter(conflicts[i].id1, conflicts[i].id2, conflicts[i].setup12, period)
            \/ StartsTooSoonAfter(conflicts[i].id2, conflicts[i].id1, conflicts[i].setup21, period))
    => outcome.error = "SafetyViolation"

\* ------------------------------------------------------------------------
\* validate_bounds.py
\* ------------------------------------------------------------------------
\* the duration of the red interval preceding a greenyellow interval
RedTime(interval, prev_red_switch, p, tol) ==
    PyMod(interval.start_greenyellow - prev_red_switch + tol, p) - tol

\* the duration of the greenyellow interval without the correction by the
\* tolerance (mutant of GreenyellowTime)
GreenyellowTime_Plain(interval, p, tol) ==
    PyMod(interval.end_greenyellow - interval.start_greenyellow, p)

\* the duration of the greenyellow interval
GreenyellowTime(interval, p, tol) ==
    PyMod(interval.end_greenyellow - interval.start_greenyellow + tol, p) - tol

\* the checks on one interval, in the order of the code; "" if all pass
BoundViolation(signalgroup, interval, prev_red_switch, p, tol) ==
    LET red_time == RedTime(interval, prev_red_switch, p, tol)
        greenyellow_time == GreenyellowTime(interval, p, tol)
    IN  IF red_time < signalgroup.min_red - tol THEN "red_too_short"
        ELSE IF red_time > signalgroup.max_red + tol THEN "red_too_long"
        ELSE IF greenyellow_time < signalgroup.min_greenyellow - tol
             THEN "greenyellow_too_short"
        ELSE IF greenyellow_time > signalgroup.max_greenyellow + tol
             THEN "greenyellow_too_large"
        ELSE ""

\* prev_red_switch that starts at 0 instead of at the end of the last
\* interval (mutant of PrevRedSwitch)
PrevRedSwitch_FromZero(intervals, k) ==
    IF k = 1 THEN 0
    ELSE intervals[k - 1].end_greenyellow

\* prev_red_switch when the loop is at interval k (1-based): the end of the
\* last interval for the first one, else the end of the interval before
PrevRedSwitch(intervals, k) ==
    IF k = 1 THEN intervals[Len(intervals)].end_greenyellow
    ELSE intervals[k - 1].end_greenyellow

RECURSIVE BoundsOfIntervalsFrom(_, _, _, _, _)
BoundsOfIntervalsFrom(k, signalgroup, intervals, p, tol) ==
    IF k > Len(intervals) THEN ""
    ELSE LET v == BoundViolation(signalgroup, intervals[k],
                                 PrevRedSwitch(intervals, k), p, tol)
         IN  IF v # "" THEN v
             ELSE BoundsOfIntervalsFrom(k + 1, signalgroup, intervals, p, tol)

RECURSIVE ValidateBoundsFrom(_, _, _, _, _)
ValidateBoundsFrom(j, sgs, gi, p, tol) ==
    IF j > Len(sgs) THEN Returned
    ELSE IF UnknownSignalgroup(gi, sgs[j].id)
         THEN Raised("ValueError", "get_greenyellow_intervals", <<sgs[j].id>>, <<>>)
    ELSE IF Len(gi[sgs[j].id]) = 0
         THEN Raised("IndexError", "validate_bounds", <<sgs[j].id>>, <<>>)
    ELSE LET v == BoundsOfIntervalsFrom(1, sgs[j], gi[sgs[j].id], p, tol)
         IN  IF v # ""
             THEN RaisedWhat("SafetyViolation", "validate_bounds", <<sgs[j].id>>, v)
             ELSE ValidateBoundsFrom(j + 1, sgs, gi, p, tol)

validate_bounds(sgs, gi, p, tol) == ValidateBoundsFrom(1, sgs, gi, p, tol)

\* ------------------------------------------------------------------------
\* Specification of the bounds validator: a signal group with every choice
\* of bounds and every list of intervals on the grid, followed by a default
\* group with at most one interval, which starts at 0; either group may be
\* absent from the schedule
\* ------------------------------------------------------------------------
MinDurations == {0, Grid}
MaxDurations == {2 * Grid, period0}

InitBounds ==
    /\ \E min_gy \in MinDurations, max_gy \in MaxDurations,
          min_r \in MinDurations, max_r \in MaxDurations :
           signalgroups = << SignalGroup("sg1", min_gy, max_gy, min_r, max_r),
                             DefaultSignalgroup("sg2") >>
    /\ \A j \in DOMAIN signalgroups : SignalGroupValid(signalgroups[j])
    /\ conflicts = << >>
    /\ other_relations = << >>
    /\ periodic_orders = << >>
    /\ period = period0
    /\ \E present \in SUBSET {"sg1", "sg2"} :
           \E l1 \in IntervalLists(MaxNr), l2 \in ListsFromZero :
               /\ "sg1" \notin present => l1 = << >>
               /\ "sg2" \notin present => l2 = << >>
               /\ greenyellow_intervals = [id \in present |-> IF id = "sg1" THEN l1 ELSE l2]
    /\ ScheduleValid(greenyellow_intervals, period)
    /\ tolerance \in Tolerances
    /\ pc = "ready"
    /\ called = "none"
    /\ outcome = NotCalled
    /\ ModuleLoaded
    /\ NoFunctionCalled

ValidateBounds ==
    /\ pc = "ready"
    /\ pc' = "done"
    /\ called' = "validate_bounds"
    /\ outcome' = validate_bounds(signalgroups, greenyellow_intervals, period, tolerance)
    /\ UNCHANGED <<inputs, cloud, calls>>

SpecBounds == InitBounds /\ [][ValidateBounds]_vars

\* ------------------------------------------------------------------------
\* Claims on the bounds validator
\* ------------------------------------------------------------------------
\* the duration from a to b as the claim states it: b - a when a < b,
\* period - a + b when a > b
StatedDuration(a, b, p) ==
    IF a < b THEN b - a ELSE IF a > b THEN p - a + b ELSE 0

\* the value congruent to b - a modulo the period in [-tol, period - tol)
CorrectedDuration(a, b, p, tol) ==
    LET d == PyMod(b - a, p)
    IN  d - p * ((d + tol) \div p)

OutsideBounds(red, gy, signalgroup, tol) ==
    \/ red < signalgroup.min_red - tol
    \/ red > signalgroup.max_red + tol
    \/ gy < signalgroup.min_greenyellow - tol
    \/ gy > signalgroup.max_greenyellow + tol

\* the interval stored just before interval k, the last one before the first
StoredBefore(intervals, k) ==
    intervals[IF k = 1 THEN Len(intervals) ELSE k - 1]

BoundsDone == pc = "done" /\ called = "validate_bounds"

\* the stored intervals of a signal group, none when it is not in the schedule
StoredIntervals(id) ==
    IF id \in DOMAIN greenyellow_intervals THEN greenyellow_intervals[id] ELSE << >>

\* every signal group of the intersection has an interval in the schedule
ScheduleComplete ==
    \A j \in DOMAIN signalgroups : StoredIntervals(signalgroups[j].id) # << >>

\* C3 as stated: validate_bounds raises SafetyViolation if and only if for
\* some signal group and some stored interval the red time before it or its
\* greenyellow time, as plain cyclic lengths, lies outside
\* [min - tolerance, max + tolerance].  Stated for the schedules in which
\* every signal group has an interval.
C3_BoundsIffStated ==
    (BoundsDone /\ ScheduleComplete) =>
        (outcome.error = "SafetyViolation" <=>
            \E j \in DOMAIN signalgroups :
                LET ivs == StoredIntervals(signalgroups[j].id)
                IN  \E k \in DOMAIN ivs :
                        OutsideBounds(
                            StatedDuration(StoredBefore(ivs, k).end_greenyellow,
                                           ivs[k].start_greenyellow, period),
                            StatedDuration(ivs[k].start_greenyellow,
                                           ivs[k].end_greenyellow, period),
                            signalgroups[j], tolerance))

\* C3 as amended: the same, with every duration taken as the value
\* congruent to the difference modulo the period that lies in
\* [-tolerance, period - tolerance), and for a signal group that has, as
\* every group before it in intersection.signalgroups, a stored interval.
C3_BoundsIffCorrected ==
    BoundsDone =>
        (outcome.error = "SafetyViolation" <=>
            \E j \in DOMAIN signalgroups :
                LET ivs == StoredIntervals(signalgroups[j].id)
                IN  /\ \A i \in 1..j : StoredIntervals(signalgroups[i].id) # << >>
                    /\ \E k \in DOMAIN ivs :
                        OutsideBounds(
                            CorrectedDuration(StoredBefore(ivs, k).end_greenyellow,
                                              ivs[k].start_greenyellow, period, tolerance),
                            CorrectedDuration(ivs[k].start_greenyellow,
                                              ivs[k].end_greenyellow, period, tolerance),
                            signalgroups[j], tolerance))

\* ------------------------------------------------------------------------
\* validate_completeness.py
\* ------------------------------------------------------------------------
\* only the check that the signal group is a key of the schedule (mutant of
\* NoIntervalsSpecified)
NoIntervalsSpecified_KeyOnly(gi, id) == ~includes_signalgroup(gi, id)

\* the two conditions under which "No greenyellow intervals specified for
\* <id>" is raised: the group is not included, or it is and has no interval
NoIntervalsSpecified(gi, id) ==
    IF ~includes_signalgroup(gi, id) THEN TRUE
    ELSE Len(gi[id]) = 0

RECURSIVE ValidateCompletenessFrom(_, _, _)
ValidateCompletenessFrom(j, sgs, gi) ==
    IF j > Len(sgs) THEN Returned
    ELSE IF NoIntervalsSpecified(gi, sgs[j].id)
         THEN Raised("SafetyViolation", "validate_completeness", <<sgs[j].id>>, <<>>)
    ELSE ValidateCompletenessFrom(j + 1, sgs, gi)

validate_completeness(sgs, gi) == ValidateCompletenessFrom(1, sgs, gi)

\* ------------------------------------------------------------------------
\* Relations between the starts of the greenyellow intervals of two groups
\* (sg_relations.py); class is the class of the object
\* ------------------------------------------------------------------------
SignalgroupIds == <<"sg1", "sg2", "sg3">>
IdRank(id) == CHOOSE r \in DOMAIN SignalgroupIds : SignalgroupIds[r] = id

\* SyncStart.__init__ stores the pair unambiguously: from_id is the larger id
SyncStart(from_id, to_id) ==
    IF IdRank(from_id) < IdRank(to_id)
    THEN [class |-> "SyncStart", from_id |-> to_id, to_id |-> from_id,
          min_seconds |-> 0, max_seconds |-> 0]
    ELSE [class |-> "SyncStart", from_id |-> from_id, to_id |-> to_id,
          min_seconds |-> 0, max_seconds |-> 0]

\* Offset.__init__ (the validator knows this class as Coordination)
Offset(from_id, to_id, seconds) ==
    [class |-> "Offset", from_id |-> from_id, to_id |-> to_id,
     min_seconds |-> seconds, max_seconds |-> seconds]

\* PreStart.__init__
PreStart(from_id, to_id, min_seconds, max_seconds) ==
    [class |-> "PreStart", from_id |-> from_id, to_id |-> to_id,
     min_seconds |-> min_seconds, max_seconds |-> max_seconds]

\* a relation between the ends of the greenyellow intervals
GreenyellowTrail(from_id, to_id, min_seconds, max_seconds) ==
    [class |-> "GreenyellowTrail", from_id |-> from_id, to_id |-> to_id,
     min_seconds |-> min_seconds, max_seconds |-> max_seconds]

\* SyncStart._validate, Offset._validate, PreStart._validate
RelationValid(r) ==
    /\ r.from_id # r.to_id
    /\ r.max_seconds >= r.min_seconds

\* ------------------------------------------------------------------------
\* validate_other_sg_relations.py
\* ------------------------------------------------------------------------
\* the classes for which find_other_sg_relation_matches determines the
\* desired range; it raises NotImplementedError for any other
HandledClasses == {"SyncStart", "Offset", "PreStart"}

MinTime(other_relation) ==
    IF other_relation.class = "SyncStart" THEN 0 ELSE other_relation.min_seconds

MaxTime(other_relation) ==
    IF other_relation.class = "SyncStart" THEN 0 ELSE other_relation.max_seconds

\* the actual time between time_from and time_to, corrected for min_time
\* potentially being negative
TimeBetween(time_from, time_to, min_time, p, tol) ==
    PyMod(time_to - time_from - (min_time - tol), p) + (min_time - tol)

\* find_other_sg_relation_matches for a relation of a handled class:
\* the list of booleans, one per interval of to_id
find_other_sg_relation_matches(other_relation, gi, p, index_from, tol) ==
    LET interval_from == gi[other_relation.from_id][index_from]
        intervals_to == gi[other_relation.to_id]
        time_from == interval_from.start_greenyellow
        min_time == MinTime(other_relation)
        max_time == MaxTime(other_relation)
    IN  [index_to \in DOMAIN intervals_to |->
            LET time_between ==
                    TimeBetween(time_from, intervals_to[index_to].start_greenyellow,
                                min_time, p, tol)
            IN  min_time - tol < time_between /\ time_between < max_time + tol]

\* shift 0 as soon as every row has a match in some column (mutant of
\* get_shift_of_one_to_one_match)
get_shift_of_one_to_one_match_AnyMatch(matches) ==
    IF /\ Len(matches) > 0
       /\ \A row \in DOMAIN matches : \E col \in DOMAIN matches[row] : matches[row][col]
    THEN 0
    ELSE None

\* get_shift_of_one_to_one_match; matches is an n x n matrix (1-based here),
\* the result is the first shift in 0..n-1 with an all-true shifted diagonal
get_shift_of_one_to_one_match(matches) ==
    LET n == Len(matches)
        ok(shift) == \A row \in 0..(n - 1) :
                         matches[row + 1][((row + shift) % n) + 1]
    IN  IF \E shift \in 0..(n - 1) : ok(shift)
        THEN CHOOSE shift \in 0..(n - 1) :
                 ok(shift) /\ \A other \in 0..(shift - 1) : ~ok(other)
        ELSE None

\* the relation is passed over with shift 0 (mutant of DifferentNumbers)
DifferentNumbers_Skipped(other_relation) ==
    [Returned EXCEPT !.idx = <<0>>]

\* the SafetyViolation for groups with different numbers of intervals
DifferentNumbers(other_relation) ==
    RaisedWhat("SafetyViolation", "get_other_sg_relation_shift",
               <<other_relation.from_id, other_relation.to_id>>, "number_of_intervals")

\* get_other_sg_relation_shift: the outcome, with the shift in idx when the
\* call returns one
get_other_sg_relation_shift(other_relation, gi, p, tol) ==
    IF UnknownSignalgroup(gi, other_relation.from_id)
    THEN Raised("ValueError", "get_greenyellow_intervals", <<other_relation.from_id>>, <<>>)
    ELSE IF UnknownSignalgroup(gi, other_relation.to_id)
    THEN Raised("ValueError", "get_greenyellow_intervals", <<other_relation.to_id>>, <<>>)
    ELSE LET intervals_from == gi[other_relation.from_id]
             intervals_to == gi[other_relation.to_id]
         IN  IF Len(intervals_from) # Len(intervals_to)
             THEN DifferentNumbers(other_relation)
             ELSE IF Len(intervals_from) > 0 /\ other_relation.class \notin HandledClasses
             THEN Raised("NotImplementedError", "find_other_sg_relation_matches",
                         <<other_relation.from_id, other_relation.to_id>>, <<>>)
             ELSE LET matches == [index_from \in DOMAIN intervals_from |->
                                     find_other_sg_relation_matches(
                                         other_relation, gi, p, index_from, tol)]
                  IN  [Returned EXCEPT !.idx = <<get_shift_of_one_to_one_match(matches)>>]

RECURSIVE ValidateOtherSgRelationsFrom(_, _, _, _, _)
ValidateOtherSgRelationsFrom(i, rels, gi, p, tol) ==
    IF i > Len(rels) THEN Returned
    ELSE LET shift == get_other_sg_relation_shift(rels[i], gi, p, tol)
         IN  IF shift.error # "none" THEN shift
             ELSE IF shift.idx = <<None>>
             THEN RaisedWhat("SafetyViolation", "validate_other_sg_relations",
                             <<rels[i].from_id, rels[i].to_id>>, "not_satisfied")
             ELSE ValidateOtherSgRelationsFrom(i + 1, rels, gi, p, tol)

validate_other_sg_relations(rels, gi, p, tol) ==
    ValidateOtherSgRelationsFrom(1, rels, gi, p, tol)

\* ------------------------------------------------------------------------
\* validate_fixed_orders.py
\* ------------------------------------------------------------------------
\* the start of an interval in the schedule as it is (mutant of Switch)
Switch_Unshifted(interval, first_interval_start, p) ==
    PyMod(interval.start_greenyellow + EPSILON, p) - EPSILON

\* the start of an interval when the schedule is shifted such that the first
\* greenyellow interval of the first signal group of the order starts at 0
Switch(interval, first_interval_start, p) ==
    PyMod(interval.start_greenyellow - first_interval_start + EPSILON, p) - EPSILON

\* prev_switch is never updated (mutant of PrevSwitchAfter)
PrevSwitchAfter_Kept(k, intervals, first_interval_start, p, prev_switch) ==
    prev_switch

\* prev_switch after the loop has passed the first k intervals of a group
PrevSwitchAfter(k, intervals, first_interval_start, p, prev_switch) ==
    IF k = 0 THEN prev_switch
    ELSE Switch(intervals[k], first_interval_start, p)

\* only the first interval of the group is looked at (mutant of
\* OrderViolatedIn)
OrderViolatedIn_FirstOnly(intervals, first_interval_start, p, prev_switch) ==
    /\ Len(intervals) > 0
    /\ Switch(intervals[1], first_interval_start, p) < prev_switch

\* does the inner loop raise on the intervals of one signal group
OrderViolatedIn(intervals, first_interval_start, p, prev_switch) ==
    \E k \in DOMAIN intervals :
        Switch(intervals[k], first_interval_start, p)
            < PrevSwitchAfter(k - 1, intervals, first_interval_start, p, prev_switch)

RECURSIVE ValidateFixedOrderFrom(_, _, _, _, _, _)
ValidateFixedOrderFrom(i, order, gi, p, first_interval_start, prev_switch) ==
    IF i > Len(order) THEN Returned
    ELSE IF UnknownSignalgroup(gi, order[i])
         THEN Raised("ValueError", "get_greenyellow_intervals", <<order[i]>>, <<>>)
    ELSE IF OrderViolatedIn(gi[order[i]], first_interval_start, p, prev_switch)
         THEN RaisedWhat("SafetyViolation", "validate_fixed_order", order, "periodic_order")
    ELSE ValidateFixedOrderFrom(i + 1, order, gi, p, first_interval_start,
                                PrevSwitchAfter(Len(gi[order[i]]), gi[order[i]],
                                                first_interval_start, p, prev_switch))

\* validate_fixed_order; get_greenyellow_interval(first_signalgroup, k=0)
\* raises ValueError when the group is unknown or has no interval
validate_fixed_order(gi, p, order) ==
    IF UnknownSignalgroup(gi, order[1]) \/ Len(gi[order[1]]) = 0
    THEN Raised("ValueError", "get_greenyellow_interval", <<order[1]>>, <<>>)
    ELSE ValidateFixedOrderFrom(1, order, gi, p, gi[order[1]][1].start_greenyellow, 0)

RECURSIVE ValidateFixedOrdersFrom(_, _, _, _)
ValidateFixedOrdersFrom(i, orders, gi, p) ==
    IF i > Len(orders) THEN Returned
    ELSE LET r == validate_fixed_order(gi, p, orders[i])
         IN  IF r.error # "none" THEN r
             ELSE ValidateFixedOrdersFrom(i + 1, orders, gi, p)

validate_fixed_orders(orders, gi, p) == ValidateFixedOrdersFrom(1, orders, gi, p)

\* ------------------------------------------------------------------------
\* validate.py
\* ------------------------------------------------------------------------
\* the parameters in the signature of validate_conflicts
ValidateConflictsParameters == {"intersection", "fts"}

\* the keyword arguments with which validate_safety_restrictions calls it
ValidateConflictsKeywords == {"intersection", "fts", "tolerance"}

\* a call with a keyword that is no parameter raises TypeError before the
\* body of the function runs
CallValidateConflicts(keywords, cs, gi, p) ==
    IF keywords \subseteq ValidateConflictsParameters
    THEN validate_conflicts(cs, gi, p)
    ELSE Raised("TypeError", "validate_conflicts", <<>>, <<>>)

validate_safety_restrictions(sgs, cs, rels, orders, gi, p, tol) ==
    LET bounds == validate_bounds(sgs, gi, p, tol)
    IN  IF bounds.error # "none" THEN bounds
        ELSE LET confl == CallValidateConflicts(ValidateConflictsKeywords, cs, gi, p)
             IN  IF confl.error # "none" THEN confl
                 ELSE LET rel == validate_other_sg_relations(rels, gi, p, tol)
                      IN  IF rel.error # "none" THEN rel
                          ELSE validate_completeness(sgs, gi)

\* ------------------------------------------------------------------------
\* The program: an intersection with two conflicting signal groups, with or
\* without a synchronous start and a periodic order, and a schedule in
\* which a group may be absent or have no interval; any of the validators
\* is called on the pair
\* ------------------------------------------------------------------------
LooseSignalgroup(id) == SignalGroup(id, Grid, 2 * Grid, 0, period0)

\* the last id of the order is not taken as the predecessor of the first
\* (mutant of PeriodicOrderValid)
PeriodicOrderValid_NoWrap(order, sgs, cs) ==
    /\ Cardinality(Range(order)) = Len(order)
    /\ \A i \in DOMAIN order :
           /\ \E j \in DOMAIN sgs : sgs[j].id = order[i]
           /\ i > 1 => \E c \in DOMAIN cs : {cs[c].id1, cs[c].id2} = {order[i - 1], order[i]}

\* Intersection._validate_periodic_orders, for one order
PeriodicOrderValid(order, sgs, cs) ==
    /\ Cardinality(Range(order)) = Len(order)
    /\ \A i \in DOMAIN order :
           /\ \E j \in DOMAIN sgs : sgs[j].id = order[i]
           /\ LET prev == order[IF i = 1 THEN Len(order) ELSE i - 1]
              IN  \E c \in DOMAIN cs : {cs[c].id1, cs[c].id2} = {prev, order[i]}

Init ==
    /\ signalgroups = <<LooseSignalgroup("sg1"), LooseSignalgroup("sg2")>>
    /\ \E s12 \in {0, Grid}, s21 \in {0, Grid} :
           conflicts = << Conflict("sg1", "sg2", s12, s21) >>
    /\ \A j \in DOMAIN signalgroups : SignalGroupValid(signalgroups[j])
    /\ \A i \in DOMAIN conflicts : ConflictValid(conflicts[i])
    /\ ValidateSetupTimes(signalgroups, conflicts)
    /\ other_relations \in {<< >>, << SyncStart("sg1", "sg2") >>}
    /\ \A i \in DOMAIN other_relations : RelationValid(other_relations[i])
    /\ periodic_orders \in {<< >>, << <<"sg1", "sg2">> >>}
    /\ \A i \in DOMAIN periodic_orders :
           PeriodicOrderValid(periodic_orders[i], signalgroups, conflicts)
    /\ period = period0
    /\ \E present \in SUBSET {"sg1", "sg2"} :
           \E l1 \in IntervalLists(MaxNr), l2 \in IntervalLists(1) :
               /\ "sg1" \notin present => l1 = << >>
               /\ "sg2" \notin present => l2 = << >>
               /\ greenyellow_intervals = [id \in present |-> IF id = "sg1" THEN l1 ELSE l2]
    /\ ScheduleValid(greenyellow_intervals, period)
    /\ tolerance = DefaultTolerance
    /\ pc = "ready"
    /\ called = "none"
    /\ outcome = NotCalled
    /\ ModuleLoaded
    /\ NoFunctionCalled

\* a validator that stores the intervals of the second group of each
\* relation in the order that matches the first group's (mutant of
\* ValidateOtherSgRelations)
ValidateOtherSgRelations_Reindexing ==
    /\ pc = "ready"
    /\ pc' = "done"
    /\ called' = "validate_other_sg_relations"
    /\ outcome' = validate_other_sg_relations(other_relations, greenyellow_intervals,
                                              period, tolerance)
    /\ greenyellow_intervals' =
           [id \in DOMAIN greenyellow_intervals |->
               IF \E i \in DOMAIN other_relations :
                      /\ other_relations[i].to_id = id
                      /\ other_relations[i].from_id \in DOMAIN greenyellow_intervals
                      /\ Len(greenyellow_intervals[id])
                             > Len(greenyellow_intervals[other_relations[i].from_id])
               THEN SubSeq(greenyellow_intervals[id], 1, Len(greenyellow_intervals[id]) - 1)
               ELSE greenyellow_intervals[id]]
    /\ UNCHANGED <<signalgroups, conflicts, other_relations, periodic_orders, period,
                   tolerance, cloud, calls>>

ValidateOtherSgRelations ==
    /\ pc = "ready"
    /\ pc' = "done"
    /\ called' = "validate_other_sg_relations"
    /\ outcome' = validate_other_sg_relations(other_relations, greenyellow_intervals,
                                              period, tolerance)
    /\ UNCHANGED <<inputs, cloud, calls>>

ValidateFixedOrders ==
    /\ pc = "ready"
    /\ pc' = "done"
    /\ called' = "validate_fixed_orders"
    /\ outcome' = validate_fixed_orders(periodic_orders, greenyellow_intervals, period)
    /\ UNCHANGED <<inputs, cloud, calls>>

ValidateCompleteness ==
    /\ pc = "ready"
    /\ pc' = "done"
    /\ called' = "validate_completeness"
    /\ outcome' = validate_completeness(signalgroups, greenyellow_intervals)
    /\ UNCHANGED <<inputs, cloud, calls>>

ValidateSafetyRestrictions ==
    /\ pc = "ready"
    /\ pc' = "done"
    /\ called' = "validate_safety_restrictions"
    /\ outcome' = validate_safety_restrictions(signalgroups, conflicts, other_relations,
                                               periodic_orders, greenyellow_intervals,
                                               period, tolerance)
    /\ UNCHANGED <<inputs, cloud, calls>>

Next ==
    \/ ValidateBounds
    \/ ValidateConflicts
    \/ ValidateOtherSgRelations
    \/ ValidateFixedOrders
    \/ ValidateCompleteness
    \/ ValidateSafetyRestrictions

Spec == Init /\ [][Next]_vars

\* ------------------------------------------------------------------------
\* Claims on validate_safety_restrictions
\* ------------------------------------------------------------------------
\* the verdict of each check on the pair of the current state
BoundsVerdict == validate_bounds(signalgroups, greenyellow_intervals, period, tolerance)
ConflictsVerdict == validate_conflicts(conflicts, greenyellow_intervals, period)
RelationsVerdict ==
    validate_other_sg_relations(other_relations, greenyellow_intervals, period, tolerance)
FixedOrdersVerdict == validate_fixed_orders(periodic_orders, greenyellow_intervals, period)
CompletenessVerdict == validate_completeness(signalgroups, greenyellow_intervals)

\* the signal groups of the intersection without an entry, or with an empty
\* interval list, in the schedule
GroupsWithoutIntervals ==
    {signalgroups[j].id : j \in {i \in DOMAIN signalgroups :
        \/ signalgroups[i].id \notin DOMAIN greenyellow_intervals
        \/ greenyellow_intervals[signalgroups[i].id] = << >>}}

ValidateDone == pc = "done" /\ called = "validate_safety_restrictions"

\* C4: for a schedule that satisfies all bounds, conflicts, other relations,
\* periodic orders and completeness, validate_safety_restrictions returns
\* normally.
C4_ValidScheduleAccepted ==
    (/\ ValidateDone
     /\ BoundsVerdict = Returned
     /\ ConflictsVerdict = Returned
     /\ RelationsVerdict = Returned
     /\ FixedOrdersVerdict = Returned
     /\ CompletenessVerdict = Returned)
    => outcome = Returned

\* C5: validate_safety_restrictions raises SafetyViolation for a schedule
\* that violates a periodic order, also when it satisfies all bounds,
\* conflicts, other relations and completeness.
C5_OrderViolationRejected ==
    (/\ ValidateDone
     /\ FixedOrdersVerdict.error = "SafetyViolation"
     /\ BoundsVerdict = Returned
     /\ ConflictsVerdict = Returned
     /\ RelationsVerdict = Returned
     /\ CompletenessVerdict = Returned)
    => outcome.error = "SafetyViolation"

\* the error of the earliest failing check in the order bounds, conflicts,
\* other relations, fixed orders, completeness
FirstFailure ==
    IF BoundsVerdict.error # "none" THEN BoundsVerdict
    ELSE IF ConflictsVerdict.error # "none" THEN ConflictsVerdict
    ELSE IF RelationsVerdict.error # "none" THEN RelationsVerdict
    ELSE IF FixedOrdersVerdict.error # "none" THEN FixedOrdersVerdict
    ELSE CompletenessVerdict

\* C6: validate_safety_restrictions runs bounds, conflicts, other relations,
\* fixed orders and completeness in this order and the error it raises is
\* that of the earliest failing check.
C6_FirstFailureInOrder ==
    ValidateDone => outcome = FirstFailure

\* C7: when a signal group of the intersection has no entry or an empty
\* interval list in the schedule, validate_safety_restrictions fails with a
\* SafetyViolation that names that group, and with no other kind of error.
C7_IncompleteScheduleIsSafetyViolation ==
    (ValidateDone /\ GroupsWithoutIntervals # {}) =>
        /\ outcome.error = "SafetyViolation"
        /\ \E id \in GroupsWithoutIntervals : outcome.sg = <<id>>

\* ------------------------------------------------------------------------
\* Specification of the completeness validator: the signal groups of the
\* intersection in several orders, and schedules in which each of them and
\* a group "sg4" that is not of the intersection is absent, empty or present
\* ------------------------------------------------------------------------
InitCompleteness ==
    /\ \E ids \in {<<"sg1", "sg2", "sg3">>, <<"sg3", "sg1", "sg2">>, <<"sg2", "sg1">>} :
           signalgroups = [j \in DOMAIN ids |-> DefaultSignalgroup(ids[j])]
    /\ conflicts = << >>
    /\ other_relations = << >>
    /\ periodic_orders = << >>
    /\ period = period0
    /\ \E present \in SUBSET {"sg1", "sg2", "sg3", "sg4"} :
           greenyellow_intervals \in [present -> ListsFromZero]
    /\ ScheduleValid(greenyellow_intervals, period)
    /\ tolerance = DefaultTolerance
    /\ pc = "ready"
    /\ called = "none"
    /\ outcome = NotCalled
    /\ ModuleLoaded
    /\ NoFunctionCalled

SpecCompleteness == InitCompleteness /\ [][ValidateCompleteness]_vars

\* ------------------------------------------------------------------------
\* Claims on the completeness validator
\* ------------------------------------------------------------------------
CompletenessDone == pc = "done" /\ called = "validate_completeness"

\* the position in intersection.signalgroups of the first group without
\* intervals in the schedule
FirstWithoutIntervals ==
    CHOOSE j \in DOMAIN signalgroups :
        /\ signalgroups[j].id \in GroupsWithoutIntervals
        /\ \A i \in 1..(j - 1) : signalgroups[i].id \notin GroupsWithoutIntervals

\* C8: validate_completeness raises SafetyViolation if and only if some
\* signal group of the intersection is absent from the schedule or has an
\* empty interval list; the error names the first such group in the order of
\* intersection.signalgroups; keys of the schedule that are not signal
\* groups of the intersection never cause a failure.
C8_CompletenessIff ==
    CompletenessDone =>
        IF GroupsWithoutIntervals = {}
        THEN outcome = Returned
        ELSE /\ outcome.error = "SafetyViolation"
             /\ outcome.sg = <<signalgroups[FirstWithoutIntervals].id>>

\* a schedule with a key that is no signal group of the intersection, in
\* which the first group is complete, a later one has an empty list and
\* is the one that is named
C8_Witness ==
    /\ CompletenessDone
    /\ \E id \in DOMAIN greenyellow_intervals :
           \A j \in DOMAIN signalgroups : signalgroups[j].id # id
    /\ FirstWithoutIntervals > 1
    /\ signalgroups[FirstWithoutIntervals].id \in DOMAIN greenyellow_intervals
    /\ outcome.error = "SafetyViolation"
    /\ outcome.sg = <<signalgroups[FirstWithoutIntervals].id>>

\* ------------------------------------------------------------------------
\* Specification of the relation validator: every list of starts on the
\* grid for sg1 and sg2 (the validator does not read the ends of the
\* intervals, each interval ends where it starts), sg3 with the intervals of
\* sg1, one relation of any class from sg1 to sg2, with or without a
\* synchronous start of sg3 and sg1 before it
\* ------------------------------------------------------------------------
StartLists ==
    {l \in IntervalLists(MaxNr) :
        \A k \in DOMAIN l : l[k].end_greenyellow = l[k].start_greenyellow}

OffsetTimes == {Grid, 2 * Grid}
PrestartTimes == {-Grid, 0, Grid}

RelationChoices ==
    {SyncStart("sg1", "sg2")}
    \cup {Offset("sg1", "sg2", t) : t \in OffsetTimes}
    \cup {PreStart("sg1", "sg2", a, b) : a \in PrestartTimes, b \in PrestartTimes}
    \cup {GreenyellowTrail("sg1", "sg2", 0, Grid)}

InitRelations ==
    /\ signalgroups = [j \in DOMAIN SignalgroupIds |-> DefaultSignalgroup(SignalgroupIds[j])]
    /\ conflicts = << >>
    /\ \E r \in RelationChoices :
           other_relations \in {<< r >>, << SyncStart("sg3", "sg1"), r >>}
    /\ \A i \in DOMAIN other_relations : RelationValid(other_relations[i])
    /\ periodic_orders = << >>
    /\ period = period0
    /\ \E l1 \in StartLists, l2 \in StartLists :
           greenyellow_intervals =
               [id \in {"sg1", "sg2", "sg3"} |-> IF id = "sg2" THEN l2 ELSE l1]
    /\ tolerance \in Tolerances
    /\ pc = "ready"
    /\ called = "none"
    /\ outcome = NotCalled
    /\ ModuleLoaded
    /\ NoFunctionCalled

SpecRelations == InitRelations /\ [][ValidateOtherSgRelations]_vars

\* ------------------------------------------------------------------------
\* Claims on the relation validator
\* ------------------------------------------------------------------------
RelationsDone == pc = "done" /\ called = "validate_other_sg_relations"

IntervalsFrom(r) == greenyellow_intervals[r.from_id]
IntervalsTo(r) == greenyellow_intervals[r.to_id]

\* the window [min_time, max_time] of a relation
Window(r) ==
    IF r.class = "SyncStart" THEN <<0, 0>>
    ELSE IF r.class = "Offset" THEN <<r.min_seconds, r.min_seconds>>
    ELSE <<r.min_seconds, r.max_seconds>>

\* the gap from time_from to time_to, taken modulo the period upwards from
\* the lower edge of the widened window, lies strictly inside the window
\* widened by the tolerance
GapWithinWindow(time_from, time_to, window, p, tol) ==
    \E m \in (-3)..3 :
        LET gap == time_to - time_from + m * p
        IN  /\ window[1] - tol <= gap /\ gap < window[1] - tol + p
            /\ window[1] - tol < gap /\ gap < window[2] + tol

\* one shift k in 0..n-1 such that for every index i the gap from
\* from-interval i to to-interval (i + k) mod n is within the window
CommonShiftExists(r) ==
    LET n == Len(IntervalsFrom(r))
    IN  \E k \in 0..(n - 1) :
            \A i \in 0..(n - 1) :
                GapWithinWindow(IntervalsFrom(r)[i + 1].start_greenyellow,
                                IntervalsTo(r)[((i + k) % n) + 1].start_greenyellow,
                                Window(r), period, tolerance)

\* every from-interval has some to-interval within the window
EveryIntervalMatched(r) ==
    \A i \in DOMAIN IntervalsFrom(r) :
        \E j \in DOMAIN IntervalsTo(r) :
            GapWithinWindow(IntervalsFrom(r)[i].start_greenyellow,
                            IntervalsTo(r)[j].start_greenyellow,
                            Window(r), period, tolerance)

SameNumberOfIntervals(r) == Len(IntervalsFrom(r)) = Len(IntervalsTo(r))

MatchingShifts(r) ==
    LET n == Len(IntervalsFrom(r))
    IN  {k \in 0..(n - 1) :
            \A i \in 0..(n - 1) :
                GapWithinWindow(IntervalsFrom(r)[i + 1].start_greenyellow,
                                IntervalsTo(r)[((i + k) % n) + 1].start_greenyellow,
                                Window(r), period, tolerance)}

\* C11: with relations of the classes SyncStart, Offset and PreStart between
\* groups with equally many intervals, a relation for which more than one
\* shift satisfies the match condition for all indices makes
\* validate_other_sg_relations raise SafetyViolation.
C11_AmbiguousShiftRejected ==
    (/\ RelationsDone
     /\ \A i \in DOMAIN other_relations :
            /\ other_relations[i].class \in HandledClasses
            /\ SameNumberOfIntervals(other_relations[i]))
    => ((\E i \in DOMAIN other_relations :
            Cardinality(MatchingShifts(other_relations[i])) > 1)
        => outcome.error = "SafetyViolation")

\* ------------------------------------------------------------------------
\* Specification of the fixed-order validator: three signal groups that all
\* conflict, one or two periodic orders, and every list of starts for sg1
\* and sg2 (the validator does not read the ends of the intervals, each
\* interval ends where it starts) on the grid and at one instant just
\* before a grid point; sg3 has at most one interval; a group may be absent
\* from the schedule
\* ------------------------------------------------------------------------
FixedOrderTimes == GridTimes \cup {Grid - EPSILON}

FixedOrderLists(maxlen) ==
    {l \in UNION {[1..n -> {GreenYellowInterval(t, t) : t \in FixedOrderTimes}] :
                    n \in 0..maxlen} :
        IntervalsValid(l, period0)}

OrderChoices ==
    {<<"sg1", "sg2", "sg3">>, <<"sg1", "sg3", "sg2">>, <<"sg2", "sg1">>, <<"sg3", "sg2", "sg1">>}

InitFixedOrders ==
    /\ signalgroups = [j \in DOMAIN SignalgroupIds |-> DefaultSignalgroup(SignalgroupIds[j])]
    /\ conflicts = << Conflict("sg1", "sg2", 0, 0), Conflict("sg1", "sg3", 0, 0),
                      Conflict("sg2", "sg3", 0, 0) >>
    /\ \A i \in DOMAIN conflicts : ConflictValid(conflicts[i])
    /\ ValidateSetupTimes(signalgroups, conflicts)
    /\ other_relations = << >>
    /\ \E order \in OrderChoices :
           periodic_orders \in {<< order >>, << <<"sg1", "sg2">>, order >>}
    /\ \A i \in DOMAIN periodic_orders :
           PeriodicOrderValid(periodic_orders[i], signalgroups, conflicts)
    /\ period = period0
    /\ \E present \in SUBSET {"sg1", "sg2", "sg3"} :
           \E l1 \in FixedOrderLists(MaxNr), l2 \in FixedOrderLists(MaxNr),
              l3 \in FixedOrderLists(1) :
               /\ "sg1" \notin present => l1 = << >>
               /\ "sg2" \notin present => l2 = << >>
               /\ "sg3" \notin present => l3 = << >>
               /\ greenyellow_intervals =
                      [id \in present |-> IF id = "sg1" THEN l1
                                          ELSE IF id = "sg2" THEN l2 ELSE l3]
    /\ tolerance = DefaultTolerance
    /\ pc = "ready"
    /\ called = "none"
    /\ outcome = NotCalled
    /\ ModuleLoaded
    /\ NoFunctionCalled

SpecFixedOrders == InitFixedOrders /\ [][ValidateFixedOrders]_vars

\* ------------------------------------------------------------------------
\* Claims on the fixed-order validator
\* ------------------------------------------------------------------------
FixedOrdersDone == pc = "done" /\ called = "validate_fixed_orders"

\* every group of every periodic order is in the schedule, and the first
\* group of every order has an interval
OrdersWalkable ==
    \A o \in DOMAIN periodic_orders :
        /\ \A i \in DOMAIN periodic_orders[o] :
               periodic_orders[o][i] \in DOMAIN greenyellow_intervals
        /\ greenyellow_intervals[periodic_orders[o][1]] # << >>

\* the starts of the stored intervals of the groups i.. of an order, group
\* by group, in stored order
RECURSIVE WalkStartsFrom(_, _)
WalkStartsFrom(i, order) ==
    IF i > Len(order) THEN << >>
    ELSE [k \in DOMAIN greenyellow_intervals[order[i]] |->
              greenyellow_intervals[order[i]][k].start_greenyellow]
         \o WalkStartsFrom(i + 1, order)

WalkStarts(order) == WalkStartsFrom(1, order)

\* the start of the first stored interval of the first group of an order
AnchorStart(order) == greenyellow_intervals[order[1]][1].start_greenyellow

\* a start relative to the anchor, modulo the period, in [0, period)
RelativeStart(t, anchor, p) == PyMod(t - anchor, p)

\* a start relative to the anchor, modulo the period, in
\* [-EPSILON, period - EPSILON)
RelativeStartEps(t, anchor, p) ==
    LET d == PyMod(t - anchor, p)
    IN  IF d >= p - EPSILON THEN d - p ELSE d

WalkDecreases(order) ==
    LET starts == WalkStarts(order)
    IN  \E k \in 2..Len(starts) :
            RelativeStart(starts[k], AnchorStart(order), period)
                < RelativeStart(starts[k - 1], AnchorStart(order), period)

WalkDecreasesEps(order) ==
    LET starts == WalkStarts(order)
    IN  \E k \in 2..Len(starts) :
            RelativeStartEps(starts[k], AnchorStart(order), period)
                < RelativeStartEps(starts[k - 1], AnchorStart(order), period)

\* C12 as stated: for a schedule that holds every group of the periodic
\* orders and an interval for the first group of each, a SafetyViolation
\* is raised if and only if for some order the starts of all stored
\* intervals, walked group by group in stored order and taken relative to
\* the anchor modulo the period in [0, period), decrease at some step.
C12_FixedOrderIffStated ==
    (FixedOrdersDone /\ OrdersWalkable) =>
        (outcome.error = "SafetyViolation" <=>
            \E o \in DOMAIN periodic_orders : WalkDecreases(periodic_orders[o]))

\* C12 as amended: the same, with the relative starts taken in
\* [-EPSILON, period - EPSILON), so that a start within EPSILON before the
\* anchor counts as just below 0 and not as nearly a period after it.
C12_FixedOrderIffCorrected ==
    (FixedOrdersDone /\ OrdersWalkable) =>
        /\ outcome.error \in {"none", "SafetyViolation"}
        /\ outcome.error = "SafetyViolation" <=>
               \E o \in DOMAIN periodic_orders : WalkDecreasesEps(periodic_orders[o])

\* an order of three groups is rejected although the first stored intervals
\* of its groups start in the order given: the second interval of a group
\* starts after the interval of a later group
C12_Witness ==
    /\ FixedOrdersDone
    /\ OrdersWalkable
    /\ Len(periodic_orders) = 1
    /\ Len(periodic_orders[1]) = 3
    /\ LET order == periodic_orders[1]
           first(i) == greenyellow_intervals[order[i]][1].start_greenyellow
       IN  /\ \A i \in 1..3 : greenyellow_intervals[order[i]] # << >>
           /\ Len(greenyellow_intervals[order[1]]) = 2
           /\ RelativeStart(first(2), first(1), period)
                  < RelativeStart(first(3), first(1), period)
           /\ first(1) # first(2)
           /\ WalkDecreasesEps(order)
    /\ outcome.error = "SafetyViolation"
    /\ outcome.what = "periodic_order"

\* the schedule in which each interval endpoint t is replaced by
\* (t + c) mod period, stored order unchanged
ShiftSchedule(gi, c, p) ==
    [id \in DOMAIN gi |->
        [k \in DOMAIN gi[id] |->
            GreenYellowInterval(PyMod(gi[id][k].start_greenyellow + c, p),
                                PyMod(gi[id][k].end_greenyellow + c, p))]]

ShiftChoices == FixedOrderTimes \cup {EPSILON}

\* C13: the verdict of validate_fixed_orders on the schedule shifted by c
\* is the verdict on the schedule itself, for every shift c.
C13_FixedOrdersShiftInvariant ==
    FixedOrdersDone =>
        \A c \in ShiftChoices :
            validate_fixed_orders(periodic_orders,
                                  ShiftSchedule(greenyellow_intervals, c, period),
                                  period).error = outcome.error

\* an accepted schedule for an order of three groups with three different
\* starts, the last of which passes the end of the period under a shift
C13_Witness ==
    /\ FixedOrdersDone
    /\ OrdersWalkable
    /\ Len(periodic_orders[1]) = 3
    /\ \A i \in 1..3 : greenyellow_intervals[periodic_orders[1][i]] # << >>
    /\ LET starts == WalkStarts(periodic_orders[1])
       IN  /\ Len(starts) > 3
           /\ Cardinality(Range(starts)) = Len(starts)
           /\ \E c \in ShiftChoices, k \in DOMAIN starts :
                  /\ starts[k] + c > period
                  /\ starts[1] + c < period
    /\ outcome = Returned

\* the choices of one stored interval (its index) for each group of an order
Choices(order) ==
    {f \in [DOMAIN order -> 1..MaxNr] :
        \A i \in DOMAIN order : f[i] \in DOMAIN greenyellow_intervals[order[i]]}

ChosenStart(order, f, i) == greenyellow_intervals[order[i]][f[i]].start_greenyellow

\* the chosen intervals start in the cyclic order given: going round from
\* the start of the first, the starts of the others are met in order
InCyclicOrder(order, f) ==
    \A i \in 2..Len(order) :
        RelativeStart(ChosenStart(order, f, i - 1), ChosenStart(order, f, 1), period)
            <= RelativeStart(ChosenStart(order, f, i), ChosenStart(order, f, 1), period)

\* the same, with starts at different instants
InStrictCyclicOrder(order, f) ==
    /\ InCyclicOrder(order, f)
    /\ \A i, j \in DOMAIN order :
           i # j => RelativeStart(ChosenStart(order, f, i), ChosenStart(order, f, j),
                                  period) # 0

AllStartsOnGrid ==
    \A id \in DOMAIN greenyellow_intervals :
        \A k \in DOMAIN greenyellow_intervals[id] :
            greenyellow_intervals[id][k].start_greenyellow \in GridTimes

ValidateIds(sgs, cs, rels) ==
    LET unique_ids == {sgs[j].id : j \in DOMAIN sgs}
    IN  /\ Cardinality(unique_ids) = Len(sgs)
        /\ \A i \in DOMAIN cs : cs[i].id1 \in unique_ids /\ cs[i].id2 \in unique_ids
        /\ \A i \in DOMAIN rels :
               rels[i].from_id \in unique_ids /\ rels[i].to_id \in unique_ids

\* the frozenset of the two ids and the two switches of an other-relation
OtherRelationInterval(other_relation) ==
    LET switch_str == IF other_relation.class = "GreenyellowTrail" THEN "red" ELSE "green"
    IN  {other_relation.from_id, switch_str, other_relation.to_id}

\* the loop over the other-relations of _validate_relations_per_pair; the
\* loop never adds to other_relation_intervals_encountered
RECURSIVE OtherRelationsUniqueFrom(_, _, _)
OtherRelationsUniqueFrom(i, rels, other_relation_intervals_encountered) ==
    IF i > Len(rels) THEN TRUE
    ELSE IF OtherRelationInterval(rels[i]) \in other_relation_intervals_encountered
    THEN FALSE
    ELSE OtherRelationsUniqueFrom(i + 1, rels, other_relation_intervals_encountered)

\* Intersection._validate_relations_per_pair
ValidateRelationsPerPair(cs, rels) ==
    /\ Len(cs) = Cardinality({{cs[i].id1, cs[i].id2} : i \in DOMAIN cs})
    /\ OtherRelationsUniqueFrom(1, rels, {})

\* Intersection._validate, after the validation of the types
IntersectionValidate(sgs, cs, rels, orders) ==
    IF ~ValidateIds(sgs, cs, rels)
    THEN Raised("ValueError", "_validate_ids", <<>>, <<>>)
    ELSE IF ~ValidateRelationsPerPair(cs, rels)
    THEN Raised("ValueError", "_validate_relations_per_pair", <<>>, <<>>)
    ELSE IF ~ValidateSetupTimes(sgs, cs)
    THEN Raised("ValueError", "_validate_setup_times", <<>>, <<>>)
    ELSE IF \E o \in DOMAIN orders :
                /\ orders[o] = << >>
                /\ \A before \in 1..(o - 1) : PeriodicOrderValid(orders[before], sgs, cs)
    THEN Raised("IndexError", "_validate_periodic_orders", <<>>, <<>>)
    ELSE IF \E o \in DOMAIN orders : ~PeriodicOrderValid(orders[o], sgs, cs)
    THEN Raised("ValueError", "_validate_periodic_orders", <<>>, <<>>)
    ELSE Returned

\* ------------------------------------------------------------------------
\* Specification of the construction of an Intersection: three signal
\* groups, up to three conflicts, up to two other relations and up to two
\* periodic orders; relations between sg1 and sg2 (in both directions) and
\* sg1 and sg3, and one that names a group that does not exist
\* ------------------------------------------------------------------------
ConflictChoices ==
    {Conflict("sg1", "sg2", 0, 0), Conflict("sg2", "sg1", 0, Grid),
     Conflict("sg1", "sg3", 0, 0), Conflict("sg2", "sg3", Grid, 0),
     Conflict("sg3", "sg1", -2 * Grid, 2 * Grid)}

RelationPairs == {<<"sg1", "sg2">>, <<"sg2", "sg1">>, <<"sg1", "sg3">>}

OtherRelationChoices ==
    {SyncStart(pair[1], pair[2]) : pair \in RelationPairs}
    \cup {Offset(pair[1], pair[2], Grid) : pair \in RelationPairs}
    \cup {PreStart(pair[1], pair[2], 0, Grid) : pair \in RelationPairs}
    \cup {GreenyellowTrail(pair[1], pair[2], 0, Grid) : pair \in RelationPairs}
    \cup {Offset("sg1", "sg4", Grid)}

ClassRank(class) ==
    CASE class = "SyncStart" -> 1
      [] class = "Offset" -> 2
      [] class = "PreStart" -> 3
      [] class = "GreenyellowTrail" -> 4

PeriodicOrderChoices ==
    {<< >>, <<"sg1">>, <<"sg1", "sg2">>, <<"sg2", "sg1">>, <<"sg2", "sg3">>, <<"sg1", "sg4">>,
     <<"sg1", "sg2", "sg3">>, <<"sg1", "sg3", "sg2">>, <<"sg3", "sg1", "sg2">>}

InitIntersection ==
    /\ signalgroups = [j \in DOMAIN SignalgroupIds |-> DefaultSignalgroup(SignalgroupIds[j])]
    /\ conflicts \in UNION {[1..n -> ConflictChoices] : n \in 0..3}
    /\ \A i \in DOMAIN conflicts : ConflictValid(conflicts[i])
    /\ other_relations \in UNION {[1..n -> OtherRelationChoices] : n \in 0..2}
    /\ \A i \in DOMAIN other_relations : RelationValid(other_relations[i])
    /\ \A i \in 2..Len(other_relations) :
           ClassRank(other_relations[i - 1].class) <= ClassRank(other_relations[i].class)
    /\ periodic_orders \in UNION {[1..n -> PeriodicOrderChoices] : n \in 0..2}
    /\ Len(periodic_orders) = 2 => periodic_orders[1] = <<"sg1", "sg2">>
    /\ period = period0
    /\ greenyellow_intervals = << >>
    /\ tolerance = DefaultTolerance
    /\ pc = "ready"
    /\ called = "none"
    /\ outcome = NotCalled
    /\ ModuleLoaded
    /\ NoFunctionCalled

ConstructIntersection ==
    /\ pc = "ready"
    /\ pc' = "done"
    /\ called' = "Intersection"
    /\ outcome' = IntersectionValidate(signalgroups, conflicts, other_relations,
                                       periodic_orders)
    /\ UNCHANGED <<inputs, cloud, calls>>

SpecIntersection == InitIntersection /\ [][ConstructIntersection]_vars

\* ------------------------------------------------------------------------
\* Claims on the construction of an Intersection
\* ------------------------------------------------------------------------
Constructed == pc = "done" /\ called = "Intersection" /\ outcome = Returned

\* the unordered pairs of the conflicts and of the other relations, one
\* entry per relation
RelationsOfPair(pair) ==
    Cardinality({i \in DOMAIN conflicts : {conflicts[i].id1, conflicts[i].id2} = pair})
    + Cardinality({i \in DOMAIN other_relations :
                      {other_relations[i].from_id, other_relations[i].to_id} = pair})

SignalgroupPairs ==
    {{signalgroups[j].id, signalgroups[k].id} : j, k \in DOMAIN signalgroups}

\* C15: every Intersection that is constructed has at most one relation
\* (conflict or other relation, of any kind and in either direction) per
\* unordered pair of signal groups.
C15_AtMostOneRelationPerPair ==
    Constructed => \A pair \in SignalgroupPairs : RelationsOfPair(pair) <= 1

\* C20: in every Intersection that is constructed every id of every
\* periodic order is the id of a signal group of the intersection, and every
\* two cyclically consecutive ids of an order (the last followed by the
\* first) form a conflict of the intersection.
C20_PeriodicOrderEdgesAreConflicts ==
    Constructed =>
        \A o \in DOMAIN periodic_orders :
            LET order == periodic_orders[o]
            IN  \A i \in DOMAIN order :
                    /\ \E j \in DOMAIN signalgroups : signalgroups[j].id = order[i]
                    /\ \E c \in DOMAIN conflicts :
                           {conflicts[c].id1, conflicts[c].id2}
                               = {order[i], order[(i % Len(order)) + 1]}

\* an intersection with a periodic order of two groups and one of three
\* groups is constructed
C20_Witness ==
    /\ Constructed
    /\ Len(conflicts) = 3
    /\ Len(periodic_orders) = 2
    /\ Len(periodic_orders[2]) = 3

\* ------------------------------------------------------------------------
\* Specification of the construction of a FixedTimeSchedule: every list of
\* up to MaxNr + 1 intervals for one signal group, with starts and ends on
\* the grid and, for the interval stored last, also one grid step beyond
\* the period
\* ------------------------------------------------------------------------
TimesBeyond == GridTimes \cup {period0 + Grid}

AnyIntervals == {GreenYellowInterval(s, e) : s \in TimesBeyond, e \in TimesBeyond}

AnyLists(maxlen) ==
    {<< >>} \cup {Append(l, last) : l \in UNION {[1..n -> GridIntervals] : n \in 0..maxlen},
                                    last \in AnyIntervals}

InitSchedule ==
    /\ signalgroups = << DefaultSignalgroup("sg1") >>
    /\ conflicts = << >>
    /\ other_relations = << >>
    /\ periodic_orders = << >>
    /\ period = period0
    /\ \E l1 \in AnyLists(MaxNr) : greenyellow_intervals = [id \in {"sg1"} |-> l1]
    /\ tolerance = DefaultTolerance
    /\ pc = "ready"
    /\ called = "none"
    /\ outcome = NotCalled
    /\ ModuleLoaded
    /\ NoFunctionCalled

ConstructSchedule ==
    /\ pc = "ready"
    /\ pc' = "done"
    /\ called' = "FixedTimeSchedule"
    /\ outcome' = FixedTimeScheduleInit(greenyellow_intervals, period)
    /\ UNCHANGED <<inputs, cloud, calls>>

SpecSchedule == InitSchedule /\ [][ConstructSchedule]_vars

\* ------------------------------------------------------------------------
\* Claims on the construction of a FixedTimeSchedule
\* ------------------------------------------------------------------------
ScheduleDone == pc = "done" /\ called = "FixedTimeSchedule"

\* the list moved round such that interval f comes first
Rotated(intervals, f) ==
    [k \in 1..Len(intervals) |-> intervals[((f + k - 2) % Len(intervals)) + 1]]

\* rotated so that the interval with the earliest start comes first, the
\* list has strictly increasing starts
StartsIncreaseWhenRotated(intervals) ==
    \/ intervals = << >>
    \/ \E f \in DOMAIN intervals :
           LET rot == Rotated(intervals, f)
           IN  /\ \A k \in DOMAIN rot : rot[1].start_greenyellow <= rot[k].start_greenyellow
               /\ \A k \in 2..Len(rot) :
                      rot[k - 1].start_greenyellow < rot[k].start_greenyellow

\* the length of the arc of an interval on the cycle: an interval with
\* start > end runs through the end of the period
ArcLength(interval, p) ==
    IF interval.end_greenyellow >= interval.start_greenyellow
    THEN interval.end_greenyellow - interval.start_greenyellow
    ELSE p - interval.start_greenyellow + interval.end_greenyellow

\* the start of interval b lies on the arc of interval a: after the start
\* of a and before its end, or at the start of a when both have a length
StartsWithin(b, a, p) ==
    LET d == PyMod(b.start_greenyellow - a.start_greenyellow, p)
    IN  /\ d < ArcLength(a, p)
        /\ d > 0 \/ ArcLength(b, p) > 0

\* two intervals overlap on the cycle; intervals that only touch do not
OverlapOnCycle(a, b, p) == StartsWithin(b, a, p) \/ StartsWithin(a, b, p)

PairwiseNonOverlapping(intervals, p) ==
    \A i, j \in DOMAIN intervals :
        i # j => ~OverlapOnCycle(intervals[i], intervals[j], p)

NothingExceedsPeriod(intervals, p) ==
    \A k \in DOMAIN intervals :
        intervals[k].start_greenyellow <= p /\ intervals[k].end_greenyellow <= p

ListAcceptable(intervals, p) ==
    /\ StartsIncreaseWhenRotated(intervals)
    /\ PairwiseNonOverlapping(intervals, p)
    /\ NothingExceedsPeriod(intervals, p)

\* C16 as stated: the constructor of FixedTimeSchedule accepts the interval
\* list of a signal group if and only if the list, rotated so that the
\* interval with the earliest start comes first, has strictly increasing
\* starts, its intervals are pairwise non-overlapping on the cycle (touching
\* allowed) and no start or end exceeds the period; it raises ValueError
\* otherwise.
C16_ConstructorAcceptsIff ==
    ScheduleDone =>
        IF ListAcceptable(greenyellow_intervals["sg1"], period)
        THEN outcome = Returned
        ELSE outcome.error = "ValueError"

NoStartAtPeriod(intervals, p) ==
    \A k \in DOMAIN intervals : intervals[k].start_greenyellow # p

\* C16 as amended: the constructor accepts a list only if it meets the
\* three conditions and raises ValueError otherwise; a list in which no
\* interval starts exactly at the period is accepted if and only if it
\* meets them.
C16_ConstructorAcceptsIffNoStartAtPeriod ==
    ScheduleDone =>
        LET intervals == greenyellow_intervals["sg1"]
        IN  /\ outcome.error \in {"none", "ValueError"}
            /\ outcome = Returned => ListAcceptable(intervals, period)
            /\ (NoStartAtPeriod(intervals, period) /\ ListAcceptable(intervals, period))
                   => outcome = Returned

\* a list of three intervals that is not stored with the earliest interval
\* first and whose interval before the earliest runs through the end of the
\* period is accepted
C16_Witness ==
    /\ ScheduleDone
    /\ outcome = Returned
    /\ LET intervals == greenyellow_intervals["sg1"]
       IN  /\ Len(intervals) = 3
           /\ intervals[1].start_greenyellow > intervals[2].start_greenyellow
           /\ intervals[1].end_greenyellow < intervals[1].start_greenyellow
           /\ \A k \in 2..3 : intervals[k].end_greenyellow > intervals[k].start_greenyellow

\* ------------------------------------------------------------------------
\* Intersection.to_json and Intersection.from_json; a json dictionary is a
\* record, a json list a sequence
\* ------------------------------------------------------------------------
\* SignalGroup.to_json and SignalGroup.from_json
SignalGroupToJson(sg) ==
    [id |-> sg.id, min_greenyellow |-> sg.min_greenyellow,
     max_greenyellow |-> sg.max_greenyellow, min_red |-> sg.min_red, max_red |-> sg.max_red]

SignalGroupFromJson(signalgroup_dict) ==
    SignalGroup(signalgroup_dict.id, signalgroup_dict.min_greenyellow,
                signalgroup_dict.max_greenyellow, signalgroup_dict.min_red,
                signalgroup_dict.max_red)

\* Conflict.to_json and Conflict.from_json
ConflictToJson(conflict) ==
    [id1 |-> conflict.id1, id2 |-> conflict.id2,
     setup12 |-> conflict.setup12, setup21 |-> conflict.setup21]

ConflictFromJson(conflict_dict) ==
    Conflict(conflict_dict.id1, conflict_dict.id2, conflict_dict.setup12, conflict_dict.setup21)

\* PeriodicOrder.to_json and PeriodicOrder.from_json
PeriodicOrderToJson(order) == [order |-> order]
PeriodicOrderFromJson(order_dict) == order_dict.order

\* to_json of SyncStart, Offset and PreStart (the greenyellow-lead); the
\* class of the greenyellow-trail is not in sg_relations.py
OtherRelationToJson(r) ==
    CASE r.class = "SyncStart" ->
             [from_id |-> r.from_id, from_start_gy |-> TRUE, to_id |-> r.to_id,
              to_start_gy |-> TRUE, min_time |-> 0, max_time |-> 0,
              same_start_phase |-> TRUE]
      [] r.class = "Offset" ->
             [from_id |-> r.from_id, from_start_gy |-> TRUE, to_id |-> r.to_id,
              to_start_gy |-> TRUE, min_time |-> r.min_seconds, max_time |-> r.min_seconds,
              same_start_phase |-> FALSE]
      [] r.class = "PreStart" ->
             [from_id |-> r.from_id, from_start_gy |-> TRUE, to_id |-> r.to_id,
              to_start_gy |-> TRUE, min_time |-> r.min_seconds, max_time |-> r.max_seconds,
              same_start_phase |-> TRUE]

\* the relation that the loop of Intersection.from_json makes of one
\* dictionary of other_relations
OtherRelationFromJson(other_relation_dict) ==
    IF other_relation_dict.from_start_gy /\ other_relation_dict.to_start_gy
    THEN IF other_relation_dict.min_time = other_relation_dict.max_time
         THEN IF other_relation_dict.min_time = 0
              THEN SyncStart(other_relation_dict.from_id, other_relation_dict.to_id)
              ELSE Offset(other_relation_dict.from_id, other_relation_dict.to_id,
                          other_relation_dict.min_time)
         ELSE PreStart(other_relation_dict.from_id, other_relation_dict.to_id,
                       other_relation_dict.min_time, other_relation_dict.max_time)
    ELSE GreenyellowTrail(other_relation_dict.from_id, other_relation_dict.to_id,
                          other_relation_dict.min_time, other_relation_dict.max_time)

\* the elements of a sequence that satisfy a test, in the order of the
\* sequence
RECURSIVE OfClass(_, _)
OfClass(rels, class) ==
    IF rels = << >> THEN << >>
    ELSE IF Head(rels).class = class
         THEN <<Head(rels)>> \o OfClass(Tail(rels), class)
         ELSE OfClass(Tail(rels), class)

\* Intersection.to_json
IntersectionToJson(sgs, cs, rels, orders) ==
    [signalgroups |-> [j \in DOMAIN sgs |-> SignalGroupToJson(sgs[j])],
     conflicts |-> [i \in DOMAIN cs |-> ConflictToJson(cs[i])],
     other_relations |-> [i \in DOMAIN rels |-> OtherRelationToJson(rels[i])],
     periodic_orders |-> [o \in DOMAIN orders |-> PeriodicOrderToJson(orders[o])]]

\* Intersection.from_json: the arguments of the constructor, with
\* other_relations as the property gives it: the sync starts, the offsets,
\* the greenyellow-leads and the greenyellow-trails
IntersectionFromJson(intersection_dict) ==
    LET loaded == [i \in DOMAIN intersection_dict.other_relations |->
                      OtherRelationFromJson(intersection_dict.other_relations[i])]
    IN  [signalgroups |-> [j \in DOMAIN intersection_dict.signalgroups |->
                              SignalGroupFromJson(intersection_dict.signalgroups[j])],
         conflicts |-> [i \in DOMAIN intersection_dict.conflicts |->
                           ConflictFromJson(intersection_dict.conflicts[i])],
         other_relations |-> OfClass(loaded, "SyncStart") \o OfClass(loaded, "Offset")
                                 \o OfClass(loaded, "PreStart")
                                 \o OfClass(loaded, "GreenyellowTrail"),
         periodic_orders |-> [o \in DOMAIN intersection_dict.periodic_orders |->
                                 PeriodicOrderFromJson(intersection_dict.periodic_orders[o])]]

\* ------------------------------------------------------------------------
\* Specification of the conversion to json and back: every intersection of
\* three signal groups with up to two conflicts, up to two sync starts,
\* offsets and greenyellow-leads and up to one periodic order that the
\* constructor accepts
\* ------------------------------------------------------------------------
JsonRelationChoices ==
    {SyncStart(pair[1], pair[2]) : pair \in RelationPairs}
    \cup {Offset(pair[1], pair[2], t) : pair \in RelationPairs, t \in {0, Grid}}
    \cup {PreStart(pair[1], pair[2], a, b) :
              pair \in RelationPairs, a \in {0, Grid}, b \in {Grid, 2 * Grid}}

InitJson ==
    /\ signalgroups = [j \in DOMAIN SignalgroupIds |-> DefaultSignalgroup(SignalgroupIds[j])]
    /\ conflicts \in UNION {[1..n -> ConflictChoices] : n \in 0..2}
    /\ \A i \in DOMAIN conflicts : ConflictValid(conflicts[i])
    /\ other_relations \in UNION {[1..n -> JsonRelationChoices] : n \in 0..2}
    /\ \A i \in DOMAIN other_relations : RelationValid(other_relations[i])
    /\ \A i \in 2..Len(other_relations) :
           ClassRank(other_relations[i - 1].class) <= ClassRank(other_relations[i].class)
    /\ periodic_orders \in UNION {[1..n -> PeriodicOrderChoices] : n \in 0..1}
    /\ IntersectionValidate(signalgroups, conflicts, other_relations, periodic_orders)
           = Returned
    /\ period = period0
    /\ greenyellow_intervals = << >>
    /\ tolerance = DefaultTolerance
    /\ pc = "ready"
    /\ called = "none"
    /\ outcome = NotCalled
    /\ ModuleLoaded
    /\ NoFunctionCalled

\* the intersection becomes Intersection.from_json(intersection.to_json())
ToJsonAndBack ==
    /\ pc = "ready"
    /\ pc' = "done"
    /\ called' = "Intersection.from_json"
    /\ LET loaded == IntersectionFromJson(
                         IntersectionToJson(signalgroups, conflicts, other_relations,
                                            periodic_orders))
       IN  /\ signalgroups' = loaded.signalgroups
           /\ conflicts' = loaded.conflicts
           /\ other_relations' = loaded.other_relations
           /\ periodic_orders' = loaded.periodic_orders
           /\ outcome' = IntersectionValidate(loaded.signalgroups, loaded.conflicts,
                                              loaded.other_relations, loaded.periodic_orders)
    /\ UNCHANGED <<greenyellow_intervals, period, tolerance, cloud, calls>>

SpecJson == InitJson /\ [][ToJsonAndBack]_vars

\* C17: Intersection.from_json(i.to_json()) has the signal groups,
\* conflicts and periodic orders of i and every other relation of i with
\* the same kind, the same from_id and to_id and the same times, and its
\* json is the json of i.
C17_JsonRoundTrip ==
    [][ToJsonAndBack =>
          /\ outcome' = Returned
          /\ signalgroups' = signalgroups
          /\ conflicts' = conflicts
          /\ periodic_orders' = periodic_orders
          /\ other_relations' = other_relations
          /\ IntersectionToJson(signalgroups', conflicts', other_relations',
                                periodic_orders')
                 = IntersectionToJson(signalgroups, conflicts, other_relations,
                                      periodic_orders)]_vars

\* ------------------------------------------------------------------------
\* Shifting a schedule along the cycle
\* ------------------------------------------------------------------------
\* the verdict of the validator that was called, on another schedule
VerdictOfCalled(gi) ==
    CASE called = "validate_bounds" -> validate_bounds(signalgroups, gi, period, tolerance)
      [] called = "validate_conflicts" -> validate_conflicts(conflicts, gi, period)
      [] called = "validate_other_sg_relations" ->
             validate_other_sg_relations(other_relations, gi, period, tolerance)
      [] called = "validate_fixed_orders" -> validate_fixed_orders(periodic_orders, gi, period)
      [] called = "validate_completeness" -> validate_completeness(signalgroups, gi)

ShiftedChecks == {"validate_bounds", "validate_conflicts", "validate_other_sg_relations"}

\* C18: validate_bounds, validate_conflicts and validate_other_sg_relations
\* each accept the schedule shifted by c modulo period exactly if they
\* accept the schedule itself, for every shift c.
C18_ShiftInvariant ==
    (pc = "done" /\ called \in ShiftedChecks) =>
        \A c \in ShiftChoices :
            (VerdictOfCalled(ShiftSchedule(greenyellow_intervals, c, period)).error = "none")
                <=> (outcome.error = "none")

\* ------------------------------------------------------------------------
\* Specification of the bounds validator and the conflict validator on one
\* schedule: a signal group with every choice of its smallest greenyellow
\* time and of its red times and every list of intervals on the grid, in
\* conflict with a default group with one interval, which starts at 0 and
\* is shorter than or as long as the group demands
\* ------------------------------------------------------------------------
RotationSetups == {<<0, 0>>, <<Grid, -Grid>>}
RotationOtherLists ==
    {<<GreenYellowInterval(0, Grid)>>, <<GreenYellowInterval(0, 2 * Grid)>>}

InitRotation ==
    /\ \E l1 \in IntervalLists(MaxNr), l2 \in RotationOtherLists :
           greenyellow_intervals = [id \in {"sg1", "sg2"} |-> IF id = "sg1" THEN l1 ELSE l2]
    /\ \E min_gy \in MinDurations, min_r \in MinDurations, max_r \in MaxDurations :
           signalgroups = << SignalGroup("sg1", min_gy, period0, min_r, max_r),
                             DefaultSignalgroup("sg2") >>
    /\ \A j \in DOMAIN signalgroups : SignalGroupValid(signalgroups[j])
    /\ \E setup \in RotationSetups :
           conflicts = << Conflict("sg1", "sg2", setup[1], setup[2]) >>
    /\ \A i \in DOMAIN conflicts : ConflictValid(conflicts[i])
    /\ other_relations = << >>
    /\ periodic_orders = << >>
    /\ period = period0
    /\ tolerance = DefaultTolerance
    /\ pc = "ready"
    /\ called = "none"
    /\ outcome = NotCalled
    /\ ModuleLoaded
    /\ NoFunctionCalled

SpecRotation == InitRotation /\ [][ValidateBounds \/ ValidateConflicts]_vars

\* the list with its first k intervals moved to the end
FirstMovedToEnd(intervals, k) ==
    SubSeq(intervals, k + 1, Len(intervals)) \o SubSeq(intervals, 1, k)

RotatedChecks == {"validate_bounds", "validate_conflicts"}

\* C19: validate_bounds raises for the schedule in which the first k
\* stored intervals of one signal group are moved to the end of its list
\* exactly if it raises for the schedule itself, and so does
\* validate_conflicts.
C19_RotationInvariant ==
    (pc = "done" /\ called \in RotatedChecks) =>
        \A id \in DOMAIN greenyellow_intervals :
            \A k \in 0..Len(greenyellow_intervals[id]) :
                (VerdictOfCalled([greenyellow_intervals EXCEPT
                                     ![id] = FirstMovedToEnd(greenyellow_intervals[id], k)]
                                ).error = "none")
                    <=> (outcome.error = "none")

\* validate_bounds has accepted a schedule in which a group that has to be
\* red for some time between its intervals has two intervals
C19_Witness ==
    /\ pc = "done"
    /\ called = "validate_bounds"
    /\ outcome = Returned
    /\ signalgroups[1].min_red > 0
    /\ Len(greenyellow_intervals["sg1"]) > 1
    /\ FirstMovedToEnd(greenyellow_intervals["sg1"], 1) # greenyellow_intervals["sg1"]

\* ------------------------------------------------------------------------
\* Specification of the construction of conflicts and of the Intersection
\* that holds them: two signal groups with every smallest greenyellow time,
\* a default third group, and one or two conflicts with every setup time;
\* conflicts holds the arguments until the conflicts are constructed
\* ------------------------------------------------------------------------
SetupMinDurations == {0, Grid, 2 * Grid}

SetupConflictIds == {<<"sg1", "sg2">>, <<"sg2", "sg1">>, <<"sg1", "sg1">>, <<"sg1", "sg4">>}

InitSetup ==
    /\ \E min1 \in SetupMinDurations, min2 \in SetupMinDurations :
           signalgroups = << SignalGroup("sg1", min1, period0, 0, period0),
                             SignalGroup("sg2", min2, period0, 0, period0),
                             DefaultSignalgroup("sg3") >>
    /\ \E ids \in SetupConflictIds, s12 \in SetupTimes, s21 \in SetupTimes :
           \E more \in {<< >>, << Conflict("sg2", "sg3", 0, -Grid) >>,
                        << Conflict("sg2", "sg3", -Grid, Grid) >>} :
               conflicts = << Conflict(ids[1], ids[2], s12, s21) >> \o more
    /\ other_relations = << >>
    /\ periodic_orders = << >>
    /\ period = period0
    /\ greenyellow_intervals = << >>
    /\ tolerance = DefaultTolerance
    /\ pc = "arguments"
    /\ called = "none"
    /\ outcome = NotCalled
    /\ ModuleLoaded
    /\ NoFunctionCalled

\* Conflict.__init__ for each of the conflicts
ConstructConflicts ==
    /\ pc = "arguments"
    /\ called' = "Conflict"
    /\ IF \A i \in DOMAIN conflicts : ConflictValid(conflicts[i])
       THEN pc' = "ready" /\ outcome' = Returned
       ELSE pc' = "done" /\ outcome' = Raised("ValueError", "Conflict._validate", <<>>, <<>>)
    /\ UNCHANGED <<inputs, cloud, calls>>

SpecSetup == InitSetup /\ [][ConstructConflicts \/ ConstructIntersection]_vars

\* the smallest greenyellow times of the signal groups with this id
MinGreenyellowOf(id) ==
    {signalgroups[j].min_greenyellow : j \in {k \in DOMAIN signalgroups : signalgroups[k].id = id}}

\* the setup time of a conflict, added to the smallest greenyellow time of
\* the group the setup time starts from, is not strictly positive
SetupTooSmall(c) ==
    \/ \E m \in MinGreenyellowOf(c.id1) : m + c.setup12 <= 0
    \/ \E m \in MinGreenyellowOf(c.id2) : m + c.setup21 <= 0

\* C21: the construction of a conflict with id1 = id2 or setup12 + setup21
\* < 0 raises ValueError; the construction of an Intersection with a conflict
\* whose setup time plus the smallest greenyellow time of its group is not
\* strictly positive raises ValueError; every constructed Intersection has
\* conflicts with setup12 + setup21 >= 0 and strictly positive sums.
C21_SetupTimesFeasible ==
    /\ (called = "Conflict" /\ \E i \in DOMAIN conflicts :
            conflicts[i].id1 = conflicts[i].id2
            \/ conflicts[i].setup12 + conflicts[i].setup21 < 0)
           => (pc = "done" /\ outcome.error = "ValueError")
    /\ (pc = "done" /\ called = "Intersection"
            /\ \E i \in DOMAIN conflicts : SetupTooSmall(conflicts[i]))
           => outcome.error = "ValueError"
    /\ Constructed =>
           \A i \in DOMAIN conflicts :
               /\ conflicts[i].setup12 + conflicts[i].setup21 >= 0
               /\ \A m \in MinGreenyellowOf(conflicts[i].id1) : m + conflicts[i].setup12 > 0
               /\ \A m \in MinGreenyellowOf(conflicts[i].id2) : m + conflicts[i].setup21 > 0
               /\ MinGreenyellowOf(conflicts[i].id1) # {}
               /\ MinGreenyellowOf(conflicts[i].id2) # {}

\* an Intersection constructed with a negative setup time that the
\* smallest greenyellow time of its group outweighs
C21_Witness ==
    /\ Constructed
    /\ \E i \in DOMAIN conflicts : conflicts[i].setup12 < 0
    /\ Len(conflicts) = 2

\* ------------------------------------------------------------------------
\* authentication/check_internet_connection.py, authentication/
\* authentication.py and swift_cloud_api.py; the clock counts seconds
\* ------------------------------------------------------------------------
\* a token is refreshed when it expires within this number of seconds
RefreshMargin == 30

\* what the two calls on the socket give for one website: a connection,
\* socket.gaierror from gethostbyname, or another OSError (a timeout, a
\* refused connection) from create_connection
SocketOutcomes == {"connected", "gaierror", "oserror"}

\* has_internet_connection: "True", "False", or "OSError" when an exception
\* other than socket.gaierror leaves the loop
RECURSIVE HasInternetFrom(_, _)
HasInternetFrom(w, sockets) ==
    IF w > Len(sockets) THEN "False"
    ELSE IF sockets[w] = "connected" THEN "True"
    ELSE IF sockets[w] = "gaierror" THEN HasInternetFrom(w + 1, sockets)
    ELSE "OSError"

has_internet_connection(sockets) == HasInternetFrom(1, sockets)

RaisedBy(e, by) == Raised(e, by, <<>>, <<>>)

\* update_authentication_token that stores the token before it looks at
\* the status code (mutant of update_authentication_token)
update_authentication_token_StoreFirst(creds, token, e, env) ==
    IF creds.access_key = None \/ creds.secret_access_key = None
    THEN [outcome |-> RaisedBy("UnauthorizedException", "update_authentication_token"),
          jwt_token |-> token, exp |-> e, sent |-> << >>]
    ELSE IF ~env.reachable
    THEN [outcome |-> RaisedBy("UnknownAuthenticationException", "update_authentication_token"),
          jwt_token |-> token, exp |-> e,
          sent |-> <<"authentication", "has_internet_connection">>]
    ELSE [outcome |-> IF env.status_code = 200 THEN Returned
                      ELSE RaisedBy("UnknownAuthenticationException",
                                    "update_authentication_token"),
          jwt_token |-> env.token, exp |-> env.exp, sent |-> <<"authentication">>]

\* update_authentication_token: the outcome, the class attributes after it
\* and the requests it sends; env is what the network answers
update_authentication_token(creds, token, e, env) ==
    LET unchanged(error, requests) ==
            [outcome |-> RaisedBy(error, "update_authentication_token"),
             jwt_token |-> token, exp |-> e, sent |-> requests]
        internet == has_internet_connection(env.sockets)
    IN  IF creds.access_key = None
        THEN unchanged("UnauthorizedException", << >>)
        ELSE IF creds.secret_access_key = None
        THEN unchanged("UnauthorizedException", << >>)
        ELSE IF ~env.reachable
        THEN unchanged(CASE internet = "True" -> "UnknownAuthenticationException"
                         [] internet = "False" -> "NoInternetConnectionException"
                         [] OTHER -> "OSError",
                       <<"authentication", "has_internet_connection">>)
        ELSE IF env.status_code # 200
        THEN unchanged(CASE internet = "OSError" -> "OSError"
                         [] internet = "False" -> "NoInternetConnectionException"
                         [] env.status_code = 401 -> "UnauthorizedException"
                         [] env.status_code = 400 -> "BadRequestException"
                         [] OTHER -> "UnknownAuthenticationException",
                       <<"authentication", "has_internet_connection">>)
        ELSE [outcome |-> Returned, jwt_token |-> env.token, exp |-> env.exp,
              sent |-> <<"authentication">>]

\* the test of get_authentication_token without the margin of 30 seconds
\* (mutant of TokenNeeded)
TokenNeeded_NoMargin(token, e, t) == token = None \/ t > e

\* the test of get_authentication_token
TokenNeeded(token, e, t) == token = None \/ t + RefreshMargin > e

\* get_authentication_token; value is the token that is returned
get_authentication_token(creds, token, e, t, env) ==
    IF TokenNeeded(token, e, t)
    THEN LET updated == update_authentication_token(creds, token, e, env)
         IN  [outcome |-> updated.outcome, jwt_token |-> updated.jwt_token,
              exp |-> updated.exp, sent |-> updated.sent, value |-> updated.jwt_token]
    ELSE [outcome |-> Returned, jwt_token |-> token, exp |-> e, sent |-> << >>,
          value |-> token]

\* check_status_code
check_status_code(status_code) ==
    CASE status_code = 400 -> RaisedBy("BadRequestException", "check_status_code")
      [] status_code \in {401, 402, 403, 426} ->
             RaisedBy("UnauthorizedException", "check_status_code")
      [] status_code = 504 -> RaisedBy("TimeoutError", "check_status_code")
      [] status_code # 200 -> RaisedBy("UnknownCloudException", "check_status_code")
      [] OTHER -> Returned

\* ------------------------------------------------------------------------
\* Specification of the calls of the cloud api: the clock advances between
\* the calls, the network answers each request in every way
\* ------------------------------------------------------------------------
MaxClock == 6

TickSeconds == RefreshMargin \div 3
Tokens == 1..2
Lifetimes == {2 * TickSeconds, RefreshMargin, RefreshMargin + 2 * TickSeconds}
AuthenticationStatusCodes == {200, 400, 401, 500}
ServiceStatusCodes == {200, 400, 401, 402, 403, 426, 500, 504}
SocketChoices == [1..2 -> SocketOutcomes]
ApiMethods == {"get_optimized_fts", "get_phase_diagram"}

AuthenticationAnswers ==
    {[reachable |-> r, status_code |-> c, sockets |-> s, token |-> k, exp |-> now + l] :
        r \in BOOLEAN, c \in AuthenticationStatusCodes, s \in SocketChoices,
        k \in Tokens, l \in Lifetimes}

InitApi ==
    /\ signalgroups = << >>
    /\ conflicts = << >>
    /\ other_relations = << >>
    /\ periodic_orders = << >>
    /\ greenyellow_intervals = << >>
    /\ period = period0
    /\ tolerance = DefaultTolerance
    /\ pc = "ready"
    /\ called = "none"
    /\ outcome = NotCalled
    /\ credentials \in [access_key : {None, 1}, secret_access_key : {None, 1}]
    /\ jwt_token = None
    /\ exp = 0
    /\ now = 0
    /\ authentication_token = None
    /\ sent = << >>
    /\ response = NoAnswer
    /\ NoFunctionCalled

\* the answer of the authentication endpoint, if a request was sent and
\* answered: r.status_code and r.json()
AnswerReceived(requests, env) ==
    IF requests # << >> /\ env.reachable
    THEN [status_code |-> env.status_code, jwt_token |-> env.token, exp |-> env.exp]
    ELSE NoAnswer

\* time passes between two calls
Tick ==
    /\ pc = "ready"
    /\ now < MaxClock * TickSeconds
    /\ now' = now + TickSeconds
    /\ UNCHANGED <<calls, inputs, pc, called, outcome, credentials, jwt_token, exp,
                   authentication_token, sent, response>>

\* the wrapper of ensure_has_internet around a method of the api
EnsureHasInternet ==
    /\ pc = "ready"
    /\ \E method \in ApiMethods : called' = method
    /\ sent' = <<"has_internet_connection">>
    /\ \E sockets \in SocketChoices :
           LET internet == has_internet_connection(sockets)
           IN  CASE internet = "True" -> pc' = "authenticate" /\ outcome' = outcome
                 [] internet = "False" ->
                        /\ pc' = "done"
                        /\ outcome' = RaisedBy("NoInternetConnectionException",
                                               "ensure_has_internet")
                 [] OTHER ->
                        /\ pc' = "done"
                        /\ outcome' = RaisedBy("OSError", "has_internet_connection")
    /\ UNCHANGED <<calls, inputs, credentials, jwt_token, exp, now, authentication_token,
                   response>>

\* the wrapper of authenticate around the method
Authenticate ==
    /\ pc = "authenticate"
    /\ \E env \in AuthenticationAnswers :
           LET got == get_authentication_token(credentials, jwt_token, exp, now, env)
           IN  /\ jwt_token' = got.jwt_token
               /\ exp' = got.exp
               /\ sent' = sent \o got.sent
               /\ response' = AnswerReceived(got.sent, env)
               /\ IF got.outcome = Returned
                  THEN /\ authentication_token' = got.value
                       /\ pc' = "call"
                       /\ outcome' = outcome
                  ELSE /\ authentication_token' = authentication_token
                       /\ pc' = "done"
                       /\ outcome' = got.outcome
    /\ UNCHANGED <<calls, inputs, called, credentials, now>>

\* the body of get_optimized_fts or get_phase_diagram
CallEndpoint ==
    /\ pc = "call"
    /\ pc' = "done"
    /\ \E arguments_ok \in BOOLEAN, reachable \in BOOLEAN,
          status_code \in ServiceStatusCodes :
           IF called = "get_optimized_fts" /\ ~arguments_ok
           THEN /\ sent' = sent
                /\ outcome' = RaisedBy("AssertionError", "get_optimized_fts")
           ELSE /\ sent' = Append(sent, "service")
                /\ outcome' = IF ~reachable
                              THEN RaisedBy("UnknownCloudException", called)
                              ELSE check_status_code(status_code)
    /\ UNCHANGED <<calls, inputs, called, credentials, jwt_token, exp, now,
                   authentication_token, response>>

\* a call of Authentication.get_authentication_token
GetAuthenticationToken ==
    /\ pc = "ready"
    /\ pc' = "done"
    /\ called' = "get_authentication_token"
    /\ \E env \in AuthenticationAnswers :
           LET got == get_authentication_token(credentials, jwt_token, exp, now, env)
           IN  /\ jwt_token' = got.jwt_token
               /\ exp' = got.exp
               /\ sent' = got.sent
               /\ response' = AnswerReceived(got.sent, env)
               /\ outcome' = got.outcome
               /\ returned' = IF got.outcome = Returned THEN got.value ELSE returned
    /\ UNCHANGED <<arguments, inputs, credentials, now, authentication_token>>

\* a call of Authentication.update_authentication_token
UpdateAuthenticationToken ==
    /\ pc = "ready"
    /\ pc' = "done"
    /\ called' = "update_authentication_token"
    /\ \E env \in AuthenticationAnswers :
           LET updated == update_authentication_token(credentials, jwt_token, exp, env)
           IN  /\ jwt_token' = updated.jwt_token
               /\ exp' = updated.exp
               /\ sent' = updated.sent
               /\ response' = AnswerReceived(updated.sent, env)
               /\ outcome' = updated.outcome
    /\ UNCHANGED <<calls, inputs, credentials, now, authentication_token>>

\* the caller goes on after the return or the exception
Continue ==
    /\ pc = "done"
    /\ pc' = "ready"
    /\ called' = "none"
    /\ outcome' = NotCalled
    /\ sent' = << >>
    /\ response' = NoAnswer
    /\ returned' = None
    /\ UNCHANGED <<arguments, inputs, credentials, jwt_token, exp, now, authentication_token>>

NextApi ==
    \/ Tick
    \/ EnsureHasInternet
    \/ Authenticate
    \/ CallEndpoint
    \/ GetAuthenticationToken
    \/ UpdateAuthenticationToken
    \/ Continue

SpecApi == InitApi /\ [][NextApi]_vars

\* ------------------------------------------------------------------------
\* Claims on the calls of the cloud api
\* ------------------------------------------------------------------------
\* the positions of the requests of one kind among the requests of the call
Positions(kind) == {i \in DOMAIN sent : sent[i] = kind}

\* the call of a method of the api ended at the check of the connection
\* that precedes the method
ConnectivityCheckFailed ==
    /\ pc = "done"
    /\ called \in ApiMethods
    /\ outcome.by \in {"ensure_has_internet", "has_internet_connection"}

\* C22: a call of get_optimized_fts or get_phase_diagram checks the
\* connection first, sends the authentication request, if any, before the
\* request to the service, sends no request twice and exactly one request to
\* the service when it returns; when the check of the connection fails,
\* NoInternetConnectionException is raised and neither request was sent.
C22_ConnectivityThenTokenThenPost ==
    called \in ApiMethods =>
        /\ sent # << >> /\ sent[1] = "has_internet_connection"
        /\ \A a \in Positions("authentication"), s \in Positions("service") : a < s
        /\ Cardinality(Positions("authentication")) <= 1
        /\ Cardinality(Positions("service")) <= 1
        /\ (pc = "done" /\ outcome = Returned) => Cardinality(Positions("service")) = 1
        /\ Positions("service") # {} => pc = "done"
        /\ ConnectivityCheckFailed =>
               /\ outcome.error = "NoInternetConnectionException"
               /\ sent = <<"has_internet_connection">>

\* ------------------------------------------------------------------------
\* Claims on the validators as functions of the intersection and schedule
\* ------------------------------------------------------------------------
\* the validators on one intersection with a conflict, with and without a
\* sync start and a periodic order, and every schedule of a group with up
\* to MaxNr intervals and a group with at most one interval, which starts
\* at 0; either group may be absent from the schedule
InitPure ==
    /\ \E present \in SUBSET {"sg1", "sg2"} :
           \E l1 \in IntervalLists(MaxNr), l2 \in ListsFromZero :
               /\ "sg1" \notin present => l1 = << >>
               /\ "sg2" \notin present => l2 = << >>
               /\ greenyellow_intervals = [id \in present |-> IF id = "sg1" THEN l1 ELSE l2]
    /\ signalgroups = <<LooseSignalgroup("sg1"), LooseSignalgroup("sg2")>>
    /\ conflicts = << Conflict("sg1", "sg2", 0, Grid) >>
    /\ other_relations \in {<< >>, << SyncStart("sg1", "sg2") >>}
    /\ periodic_orders \in {<< >>, << <<"sg1", "sg2">> >>}
    /\ period = period0
    /\ tolerance = DefaultTolerance
    /\ pc = "ready"
    /\ called = "none"
    /\ outcome = NotCalled
    /\ ModuleLoaded
    /\ NoFunctionCalled

NextPure ==
    \/ ValidateBounds
    \/ ValidateConflicts
    \/ ValidateOtherSgRelations
    \/ ValidateFixedOrders
    \/ ValidateCompleteness

SpecPure == InitPure /\ [][NextPure]_vars

PureValidators ==
    {"validate_bounds", "validate_conflicts", "validate_other_sg_relations",
     "validate_fixed_orders", "validate_completeness"}

SquareMatrices(n) == [1..n -> [1..n -> BOOLEAN]]

InitMatch ==
    /\ signalgroups = << >>
    /\ conflicts = << >>
    /\ other_relations = << >>
    /\ periodic_orders = << >>
    /\ greenyellow_intervals = << >>
    /\ period = period0
    /\ tolerance = DefaultTolerance
    /\ pc = "ready"
    /\ called = "none"
    /\ outcome = NotCalled
    /\ ModuleLoaded
    /\ \E n \in 0..(MaxNr + 1) : \E m \in SquareMatrices(n) : arguments = [matches |-> m]
    /\ returned = None

GetShiftOfOneToOneMatch ==
    /\ pc = "ready"
    /\ pc' = "done"
    /\ called' = "get_shift_of_one_to_one_match"
    /\ outcome' = Returned
    /\ returned' = get_shift_of_one_to_one_match(arguments.matches)
    /\ UNCHANGED <<inputs, cloud, arguments>>

SpecMatch == InitMatch /\ [][GetShiftOfOneToOneMatch]_vars

\* every row i of the matrix is true in column (i + k) mod n (0-based)
ShiftedDiagonalTrue(m, k) ==
    \A i \in 1..Len(m) : m[i][((i - 1 + k) % Len(m)) + 1]

MatchDone == pc = "done" /\ called = "get_shift_of_one_to_one_match"

\* C24: get_shift_of_one_to_one_match returns the smallest k in 0..n-1 for
\* which every row i is true in column (i + k) mod n, and None exactly if
\* there is no such k.
C24_SmallestShiftOrNone ==
    MatchDone =>
        LET m == arguments.matches
            fitting == {k \in 0..(Len(m) - 1) : ShiftedDiagonalTrue(m, k)}
        IN  /\ returned = None <=> fitting = {}
            /\ returned # None =>
                   /\ returned \in fitting
                   /\ \A k \in fitting : returned <= k

\* a matrix of three rows for which two shifts fit, the smaller of which
\* is not 0
C24_Witness ==
    /\ MatchDone
    /\ Len(arguments.matches) = 3
    /\ ~ShiftedDiagonalTrue(arguments.matches, 0)
    /\ ShiftedDiagonalTrue(arguments.matches, 1)
    /\ ShiftedDiagonalTrue(arguments.matches, 2)
    /\ returned = 1

\* ------------------------------------------------------------------------
\* Specification of overlap_of_intervals on its own: two intervals with
\* endpoints on the grid in [0, period), for two periods
\* ------------------------------------------------------------------------
OverlapPeriods == {period0, period0 + Grid}

TimesBefore(p) == {t \in GridTimes : t < p}

InitOverlap ==
    /\ signalgroups = << >>
    /\ conflicts = << >>
    /\ other_relations = << >>
    /\ periodic_orders = << >>
    /\ greenyellow_intervals = << >>
    /\ period = period0
    /\ tolerance = DefaultTolerance
    /\ pc = "ready"
    /\ called = "none"
    /\ outcome = NotCalled
    /\ ModuleLoaded
    /\ \E p \in OverlapPeriods :
       \E s1 \in TimesBefore(p), e1 \in TimesBefore(p),
          s2 \in TimesBefore(p), e2 \in TimesBefore(p) :
           arguments = [interval1 |-> <<s1, e1>>, interval2 |-> <<s2, e2>>, period |-> p]
    /\ returned = None

OverlapOfIntervals ==
    /\ pc = "ready"
    /\ pc' = "done"
    /\ called' = "overlap_of_intervals"
    /\ outcome' = Returned
    /\ returned' = overlap_of_intervals(arguments.interval1, arguments.interval2,
                                        arguments.period)
    /\ UNCHANGED <<inputs, cloud, arguments>>

SpecOverlap == InitOverlap /\ [][OverlapOfIntervals]_vars

\* the grid cells [t, t + Grid) that lie on the arc of an interval <<start,
\* end>> with start # end; with start > end the arc runs through the end of
\* the period
CoveredCells(interval, p) ==
    {t \in TimesBefore(p) :
        IF interval[1] < interval[2]
        THEN interval[1] <= t /\ t < interval[2]
        ELSE interval[1] <= t \/ t < interval[2]}

OverlapDone == pc = "done" /\ called = "overlap_of_intervals"

\* C25: for intervals with endpoints in [0, period) and start # end,
\* overlap_of_intervals returns a non-empty list exactly if the two intervals
\* share a sub-interval of positive length on the cycle; the list has at most
\* two elements and every endpoint in it lies in [0, period).
C25_OverlapIffSharedArc ==
    (/\ OverlapDone
     /\ arguments.interval1[1] # arguments.interval1[2]
     /\ arguments.interval2[1] # arguments.interval2[2])
    => LET shared == CoveredCells(arguments.interval1, arguments.period)
                         \cap CoveredCells(arguments.interval2, arguments.period)
       IN  /\ returned # << >> <=> shared # {}
           /\ Len(returned) <= 2
           /\ \A k \in DOMAIN returned :
                  /\ 0 <= returned[k][1] /\ returned[k][1] < arguments.period
                  /\ 0 <= returned[k][2] /\ returned[k][2] < arguments.period

\* an interval through the end of the period that overlaps the other interval
\* at both of its ends: two overlaps are returned
C25_Witness ==
    /\ OverlapDone
    /\ arguments.interval1[1] # arguments.interval1[2]
    /\ arguments.interval2[1] > arguments.interval2[2]
    /\ Len(returned) = 2

\* ------------------------------------------------------------------------
\* Specification of conflict_satisfied on its own: two intervals on the
\* grid and a conflict with every pair of setup times that Conflict accepts
\* ------------------------------------------------------------------------
InitConflictPair ==
    /\ signalgroups = << >>
    /\ conflicts = << >>
    /\ other_relations = << >>
    /\ periodic_orders = << >>
    /\ greenyellow_intervals = << >>
    /\ period = period0
    /\ tolerance = DefaultTolerance
    /\ pc = "ready"
    /\ called = "none"
    /\ outcome = NotCalled
    /\ ModuleLoaded
    /\ \E i1 \in GridIntervals, i2 \in GridIntervals, p \in OverlapPeriods,
          a \in SetupTimes, b \in SetupTimes :
           /\ ConflictValid(Conflict("sg1", "sg2", a, b))
           /\ arguments = [interval1 |-> i1, interval2 |-> i2, period |-> p,
                           conflict |-> Conflict("sg1", "sg2", a, b)]
    /\ returned = None

ConflictSatisfied ==
    /\ pc = "ready"
    /\ pc' = "done"
    /\ called' = "conflict_satisfied"
    /\ outcome' = Returned
    /\ returned' = conflict_satisfied(arguments.interval1, arguments.interval2,
                                      arguments.period, arguments.conflict)
    /\ UNCHANGED <<inputs, cloud, arguments>>

SpecConflictPair == InitConflictPair /\ [][ConflictSatisfied]_vars

\* the same conflict with the other signal group listed first
Mirrored(c) == Conflict(c.id2, c.id1, c.setup21, c.setup12)

ConflictPairDone == pc = "done" /\ called = "conflict_satisfied"

\* C26: conflict_satisfied(I1, I2, Conflict(id1, id2, a, b)) equals
\* conflict_satisfied(I2, I1, Conflict(id2, id1, b, a)) for all intervals,
\* periods and setup times.
C26_ConflictSymmetric ==
    ConflictPairDone =>
        returned = conflict_satisfied(arguments.interval2, arguments.interval1,
                                      arguments.period, Mirrored(arguments.conflict))

\* ------------------------------------------------------------------------
\* Specification of the fixed-order validator on one periodic order and its
\* rotations: three signal groups that all conflict, every order of two or
\* three of them, and a schedule in which every group has one interval
\* ------------------------------------------------------------------------
SingleOrders ==
    {o \in UNION {[1..n -> Range(SignalgroupIds)] : n \in 2..3} :
        Cardinality(Range(o)) = Len(o)}

InitOrderRotation ==
    /\ signalgroups = [j \in DOMAIN SignalgroupIds |-> DefaultSignalgroup(SignalgroupIds[j])]
    /\ conflicts = << Conflict("sg1", "sg2", 0, 0), Conflict("sg1", "sg3", 0, 0),
                      Conflict("sg2", "sg3", 0, 0) >>
    /\ \A i \in DOMAIN conflicts : ConflictValid(conflicts[i])
    /\ ValidateSetupTimes(signalgroups, conflicts)
    /\ other_relations = << >>
    /\ \E order \in SingleOrders : periodic_orders = << order >>
    /\ \A i \in DOMAIN periodic_orders :
           PeriodicOrderValid(periodic_orders[i], signalgroups, conflicts)
    /\ period = period0
    /\ \E l1 \in FixedOrderLists(1) \ {<< >>}, l2 \in FixedOrderLists(1) \ {<< >>},
          l3 \in FixedOrderLists(1) \ {<< >>} :
           greenyellow_intervals =
               [id \in Range(SignalgroupIds) |->
                    IF id = "sg1" THEN l1 ELSE IF id = "sg2" THEN l2 ELSE l3]
    /\ tolerance = DefaultTolerance
    /\ pc = "ready"
    /\ called = "none"
    /\ outcome = NotCalled
    /\ ModuleLoaded
    /\ NoFunctionCalled

SpecOrderRotation == InitOrderRotation /\ [][ValidateFixedOrders]_vars

\* C27: when each signal group of a periodic order has exactly one
\* greenyellow interval, validate_fixed_order gives the same verdict for the
\* order and for each of its cyclic rotations.
C27_OrderRotationInvariant ==
    (/\ FixedOrdersDone
     /\ Len(periodic_orders) = 1
     /\ \A i \in DOMAIN periodic_orders[1] :
            /\ periodic_orders[1][i] \in DOMAIN greenyellow_intervals
            /\ Len(greenyellow_intervals[periodic_orders[1][i]]) = 1)
    => \A j \in DOMAIN periodic_orders[1] :
           validate_fixed_order(greenyellow_intervals, period,
                                Rotated(periodic_orders[1], j)).error = outcome.error

\* C28: for every relation that an intersection holds in other_relations
\* (sync start, offset, greenyellow-lead, greenyellow-trail) and every
\* schedule with the signal groups of the relations,
\* validate_other_sg_relations returns normally or raises SafetyViolation;
\* it never ends with another error such as NotImplementedError.
C28_EveryRelationKindHandled ==
    (/\ RelationsDone
     /\ \A i \in DOMAIN other_relations :
            {other_relations[i].from_id, other_relations[i].to_id}
                \subseteq DOMAIN greenyellow_intervals)
    => outcome.error \in {"none", "SafetyViolation"}

\* ------------------------------------------------------------------------
\* Claims on the authentication cache
\* ------------------------------------------------------------------------
\* a step that is a call of get_authentication_token, on its own or by the
\* wrapper of authenticate
TokenStep ==
    \/ pc = "ready" /\ called' = "get_authentication_token"
    \/ pc = "authenticate" /\ pc' # "authenticate"

\* the call of the step has not raised
TokenStepReturned == pc' = "call" \/ (pc' = "done" /\ outcome' = Returned)

\* the step sends a request to the authentication endpoint
AuthenticationRequestSent ==
    \E k \in (Len(sent) + 1)..Len(sent') : sent'[k] = "authentication"

\* no token is cached, or the cached token expires less than 30 seconds
\* after the current time
NoneOrAlmostExpired == jwt_token = None \/ exp - now < 30

CredentialsSet == credentials.access_key # None /\ credentials.secret_access_key # None

\* what the claim says besides the condition of the request: without a
\* refresh the cached token is returned and no request is sent, after a
\* successful refresh token and expiry are those of the response, and the
\* token handed to the method of the api is the stored one
CacheServedAndStored ==
    /\ ~NoneOrAlmostExpired =>
           /\ sent' = sent
           /\ jwt_token' = jwt_token /\ exp' = exp
           /\ TokenStepReturned
           /\ pc = "ready" => returned' = jwt_token
           /\ pc = "authenticate" => authentication_token' = jwt_token
    /\ (AuthenticationRequestSent /\ TokenStepReturned) =>
           /\ jwt_token' = response'.jwt_token
           /\ exp' = response'.exp
    /\ pc' = "call" => authentication_token' = jwt_token'

\* C29 as stated: get_authentication_token sends an authentication request
\* if and only if no token is cached or the cached token expires less than
\* 30 seconds after the current time, and otherwise returns the cached token
\* without a request; after a successful refresh the cached token and expiry
\* are those of the response, and the token handed to a method of the api is
\* the most recently stored one.
C29_RequestIffStale ==
    [][TokenStep =>
          /\ AuthenticationRequestSent <=> NoneOrAlmostExpired
          /\ CacheServedAndStored]_vars

\* C29 as amended: the request is sent if and only if no token is cached or
\* the cached token expires less than 30 seconds after the current time, and
\* both credentials are set; the rest as stated.
C29_RequestIffStaleAndCredentials ==
    [][TokenStep =>
          /\ AuthenticationRequestSent <=> (NoneOrAlmostExpired /\ CredentialsSet)
          /\ CacheServedAndStored]_vars

\* a call of get_authentication_token after the clock has advanced that has
\* refreshed the token and returns the token of the response
C29_Witness ==
    /\ pc = "done"
    /\ called = "get_authentication_token"
    /\ outcome = Returned
    /\ now > 0
    /\ sent = <<"authentication">>
    /\ jwt_token = response.jwt_token
    /\ exp = response.exp
    /\ returned = jwt_token

\* a step in which update_authentication_token runs: called on its own, or
\* by get_authentication_token when it needs a token
UpdateStep ==
    \/ pc = "ready" /\ called' = "update_authentication_token"
    \/ TokenStep /\ TokenNeeded(jwt_token, exp, now)

UpdateStepRaised == pc' = "done" /\ outcome'.error # "none"

\* the request to the authentication endpoint got no answer
ConnectionFailed == AuthenticationRequestSent /\ response'.status_code = None

StatusNot200 == AuthenticationRequestSent /\ response'.status_code \notin {None, 200}

C3_Witness ==
    /\ BoundsDone
    /\ ScheduleComplete
    /\ tolerance = Grid
    /\ Len(greenyellow_intervals["sg1"]) = 2
    /\ \E k \in DOMAIN greenyellow_intervals["sg1"] :
           LET interval == greenyellow_intervals["sg1"][k]
           IN  /\ interval.start_greenyellow > interval.end_greenyellow
               /\ StatedDuration(interval.start_greenyellow, interval.end_greenyellow, period)
                      = period - Grid
               /\ CorrectedDuration(interval.start_greenyellow, interval.end_greenyellow,
                                    period, tolerance) = -Grid
    /\ outcome.error = "SafetyViolation"
    /\ outcome.sg = <<"sg1">>

====
